---- MODULE Spec2Model ----
(***************************************************************************)
(* A model of the Octopus Germany integration: the optimistic toggle       *)
(* reconciler of the device switch (switch.py), the creation of switch     *)
(* entities (async_setup_entry) and the active-tariff price selection of   *)
(* the price sensors (sensor.py).                                          *)
(*                                                                         *)
(* Python values are modelled as follows.  An optional value is a sequence *)
(* of length at most one: None is << >>, a present value x is << x >>.     *)
(* A dict is a function (record) whose DOMAIN is its set of keys, so that  *)
(* dict.get(k, default) is Get(d, k, default).  A list is a sequence.      *)
(***************************************************************************)
EXTENDS Integers, Sequences, FiniteSets, TLC

VARIABLES
    data,       \* coordinator.data: None or a mapping account number -> account snapshot
    now,        \* datetime.now() of the switch's host, in seconds
    ticks,      \* how many times the clock has advanced (bounds the model)
    sw,         \* the OctopusSwitch entity under study: its fields
    tasks,      \* the coroutines started so far, each with its position: the
                \* toggles of the switch, the async_update calls of a price sensor
    last,       \* the operation that ran last, what it returned and what it logged
    entry,      \* async_setup_entry's inputs taken from hass.data and the config entry,
                \* with the order in which coordinator.data holds its accounts
    switches,   \* the entities async_setup_entry handed to async_add_entities
    instant,    \* datetime.now() of a price sensor's host: ISO string and time of day
    reading,    \* what the last read of a price sensor's native_value returned and logged
    window,     \* a call of _is_time_between: its three times and what it returned
    price,      \* the OctopusElectricityPriceSensor entity under study: its fields
    success     \* coordinator.last_update_success

vars == <<data, now, ticks, sw, tasks, last, entry, switches, instant, reading, window, price, success>>

\* What the operations of the switch leave alone, and those of setup, and
\* those of the price sensors
notSwitch == <<entry, switches, instant, reading, window, price, success>>
notSetup == <<now, ticks, sw, tasks, instant, reading, window, price, success>>
notSensor == <<now, ticks, sw, tasks, entry, switches, window, price, success>>

---------------------------------------------------------------------------
(* Python values *)

None == << >>
Some(x) == << x >>
Val(o) == o[1]
EmptyDict == << >>
Get(d, k, default) == IF k \in DOMAIN d THEN d[k] ELSE default

SetMin(S) == CHOOSE x \in S : \A y \in S : x <= y

---------------------------------------------------------------------------
(* Bounds of the model and constants of the program *)

MaxTicks == 2          \* the clock advances at most this many times
MaxToggles == 2        \* at most this many toggle calls are issued
MaxLiveToggles == 1    \* at most this many toggle calls where the clock has no tick budget
MaxUpdates == 2        \* at most this many calls of a sensor's async_update
PendingMinutes == 5    \* timedelta(minutes=5)
SleepSeconds == 3      \* asyncio.sleep(3)

PendingTimeout == PendingMinutes * 60

\* The amounts by which the clock advances between two operations: the
\* refresh delay and the pending timeout.  A toggle issued at instant t thus
\* sees the instants before, at and after its deadline t + PendingTimeout.
ClockSteps == {SleepSeconds, PendingTimeout}

Accounts == {"A1", "A2"}
DeviceIds == {"d1", "d2"}

---------------------------------------------------------------------------
(* The switch: snapshots *)

\* A device of a snapshot: the status is absent, or lacks isSuspended, or
\* reports it.
Device(id, kind) ==
    CASE kind = "nostatus" -> [id |-> id]
      [] kind = "nosuspended" -> [id |-> id, status |-> EmptyDict]
      [] kind = "suspended" -> [id |-> id, status |-> [isSuspended |-> TRUE]]
      [] kind = "active" -> [id |-> id, status |-> [isSuspended |-> FALSE]]

\* The snapshots a refresh may deliver to the switch of device d1 of account A1.
SwitchSnapshots ==
    { None,
      Some([A2 |-> [devices |-> << Device("d1", "active") >>]]),
      Some([A1 |-> [devices |-> << >>]]),
      Some([A1 |-> [devices |-> << Device("d2", "active") >>]]),
      Some([A1 |-> [devices |-> << Device("d1", "nostatus") >>]]),
      Some([A1 |-> [devices |-> << Device("d2", "active"), Device("d1", "suspended") >>]]),
      Some([A1 |-> [devices |-> << Device("d1", "active"), Device("d2", "suspended") >>]]) }

---------------------------------------------------------------------------
(* The switch: OctopusSwitch *)

\* not device.get("status", {}).get("isSuspended", True)
ApiState(device) ==
    ~ Get(Get(device, "status", EmptyDict), "isSuspended", TRUE)

\* f"octopus_{account_number}_device_smart_control", as its pieces
UniqueId(account_number, device_id) ==
    << "octopus_", account_number, "_device_smart_control" >>

\* An operation that ended in an exception logs the exception's type
IsError(log) == log \in {"TypeError", "KeyError"}

\* OctopusSwitch._get_device's search d["id"] == self._device_id raises
\* KeyError under snapshot d: it meets a device without id before it meets
\* the entity's device.
get_device_raises(s, d) ==
    IF d = None \/ DOMAIN Val(d) = {}
    THEN FALSE
    ELSE LET account_data == Get(Val(d), s.account_number, EmptyDict)
             devices == Get(account_data, "devices", << >>)
             hits == { i \in DOMAIN devices :
                         "id" \in DOMAIN devices[i] /\ devices[i].id = s.device_id }
         IN  \E i \in DOMAIN devices :
                 /\ "id" \notin DOMAIN devices[i]
                 /\ \A j \in hits : i < j

\* OctopusSwitch._get_device when it does not raise: the entity's device in
\* the snapshot d, or None
get_device(s, d) ==
    IF d = None \/ DOMAIN Val(d) = {}
    THEN None
    ELSE LET account_data == Get(Val(d), s.account_number, EmptyDict)
             devices == Get(account_data, "devices", << >>)
             hits == { i \in DOMAIN devices :
                         "id" \in DOMAIN devices[i] /\ devices[i].id = s.device_id }
         IN  IF devices = << >> \/ hits = {}
             THEN None
             ELSE Some(devices[SetMin(hits)])

\* Setting the pending state without moving a deadline already there
SetPending_KeepsDeadline(s, target, t) ==
    [s EXCEPT !.is_switching = TRUE,
              !.pending_state = Some(target),
              !.pending_until = IF s.pending_until # None
                                THEN s.pending_until
                                ELSE Some(t + PendingTimeout)]

\* The three assignments that enter Pending(target, t + 5 minutes)
SetPending(s, target, t) ==
    [s EXCEPT !.is_switching = TRUE,
              !.pending_state = Some(target),
              !.pending_until = Some(t + PendingTimeout)]

\* Mutant of ResetPending: the deadline is left behind
ResetPending_KeepsDeadline(s) ==
    [s EXCEPT !.is_switching = FALSE,
              !.pending_state = None]

\* The three assignments that leave Pending
ResetPending(s) ==
    [s EXCEPT !.is_switching = FALSE,
              !.pending_state = None,
              !.pending_until = None]

\* The test of the deadline that never finds it passed
TimeoutExceeded_Never(s, t) == FALSE

\* Mutant of TimeoutExceeded: the deadline itself already counts as exceeded
TimeoutExceeded_AtDeadline(s, t) ==
    s.pending_until # None /\ t >= Val(s.pending_until)

\* self._pending_until and datetime.now() > self._pending_until
TimeoutExceeded(s, t) ==
    s.pending_until # None /\ t > Val(s.pending_until)

\* is_on falling back on the state it remembers when the device is missing
is_on_Remembered(s, d, t) ==
    IF s.is_switching /\ s.pending_state # None /\ ~ TimeoutExceeded(s, t)
    THEN [ret |-> Val(s.pending_state), s |-> s, log |-> "none"]
    ELSE LET expired == s.is_switching /\ s.pending_state # None
             s1 == IF expired THEN ResetPending(s) ELSE s
             device == get_device(s1, d)
             lg == IF expired THEN "timeout" ELSE "none"
         IN  IF device # None
             THEN [ret |-> ApiState(Val(device)),
                   s |-> [s1 EXCEPT !.current_state = ApiState(Val(device))],
                   log |-> lg]
             ELSE [ret |-> s1.current_state, s |-> s1, log |-> lg]

\* Mutant of is_on: a timed-out read reports the snapshot but stays Pending
is_on_NoReset(s, d, t) ==
    IF s.is_switching /\ s.pending_state # None /\ ~ TimeoutExceeded(s, t)
    THEN [ret |-> Val(s.pending_state), s |-> s, log |-> "none"]
    ELSE LET device == get_device(s, d)
         IN  IF device # None
             THEN [ret |-> ApiState(Val(device)),
                   s |-> [s EXCEPT !.current_state = ApiState(Val(device))],
                   log |-> "none"]
             ELSE [ret |-> FALSE, s |-> s, log |-> "none"]

\* The is_on property read at instant t under snapshot d, whose devices all
\* carry an id: the value returned, the entity's fields after the read, and
\* the warning logged.
is_on(s, d, t) ==
    IF s.is_switching /\ s.pending_state # None /\ ~ TimeoutExceeded(s, t)
    THEN [ret |-> Val(s.pending_state), s |-> s, log |-> "none"]
    ELSE LET expired == s.is_switching /\ s.pending_state # None
             s1 == IF expired THEN ResetPending(s) ELSE s
             device == get_device(s1, d)
             lg == IF expired THEN "timeout" ELSE "none"
         IN  IF device # None
             THEN [ret |-> ApiState(Val(device)),
                   s |-> [s1 EXCEPT !.current_state = ApiState(Val(device))],
                   log |-> lg]
             ELSE [ret |-> FALSE, s |-> s1, log |-> lg]

\* OctopusSwitch.available: "account in coordinator.data" is evaluated when
\* last_update_success holds, and raises TypeError on a snapshot that is
\* None; _get_device is called next and may raise KeyError.
switch_available(s, d, last_update_success) ==
    IF last_update_success /\ d = None
    THEN [ret |-> None, log |-> "TypeError"]
    ELSE IF get_device_raises(s, d)
    THEN [ret |-> None, log |-> "KeyError"]
    ELSE LET coordinator_has_data ==
                 last_update_success /\ s.account_number \in DOMAIN Val(d)
             device_exists == get_device(s, d) # None
         IN  [ret |-> Some(coordinator_has_data /\ device_exists), log |-> "none"]

\* self.async_write_ha_state(), the host's: it reads the entity's available
\* and, when the entity is available, its state, which is is_on.  The
\* entity's fields after it, and the exception that ended it or the warning
\* that is_on logged.
async_write_ha_state(s, d, t, last_update_success) ==
    LET a == switch_available(s, d, last_update_success)
    IN  IF a.ret = None
        THEN [s |-> s, log |-> a.log]
        ELSE IF ~ Val(a.ret)
        THEN [s |-> s, log |-> "none"]
        ELSE LET r == is_on(s, d, t)
             IN  [s |-> r.s, log |-> r.log]

\* OctopusSwitch.__init__ under the coordinator's snapshot d: the fields of
\* the new entity, or the exception that the _get_device of
\* _update_attributes ended in.  _update_attributes assigns the extra state
\* attributes only.
OctopusSwitch(device, account_number, d) ==
    LET s == [ device_id |-> device.id,
               account_number |-> account_number,
               current_state |-> ApiState(device),
               is_switching |-> FALSE,
               pending_state |-> None,
               pending_until |-> None,
               unique_id |-> UniqueId(account_number, device.id) ]
    IN  [s |-> s, log |-> IF get_device_raises(s, d) THEN "KeyError" ELSE "none"]

\* Mutant of ConfirmPending: is_switching is left set
ConfirmPending_StaysSwitching(s, actual_state) ==
    [s EXCEPT !.pending_state = None,
              !.pending_until = None,
              !.current_state = actual_state]

\* The confirmation branch of _handle_coordinator_update
ConfirmPending(s, actual_state) ==
    [ResetPending(s) EXCEPT !.current_state = actual_state]

\* What _handle_coordinator_update logged: the exception its state write
\* ended in, else the confirmation, else the timeout warning of the is_on
\* read of the state write, else the change of state
UpdateLog(confirmed, w, changed) ==
    IF IsError(w.log) THEN w.log
    ELSE IF confirmed THEN "confirmed"
    ELSE IF w.log = "timeout" THEN "timeout"
    ELSE IF changed THEN "changed"
    ELSE "none"

\* Mutant of handle_coordinator_update: a reported state that differs from
\* the current one is adopted also while switching, which ends Pending
handle_coordinator_update_Overrides(s, d, t, last_update_success) ==
    LET device == get_device(s, d)
    IN  IF device = None
        THEN async_write_ha_state(s, d, t, last_update_success)
        ELSE LET new_state == ApiState(Val(device))
                 changed == new_state # s.current_state
                 s1 == IF changed
                       THEN [ResetPending(s) EXCEPT !.current_state = new_state]
                       ELSE s
                 confirmed == s1.is_switching /\ s1.pending_state = Some(new_state)
                 s2 == IF confirmed THEN ConfirmPending(s1, new_state) ELSE s1
                 w == async_write_ha_state(s2, d, t, last_update_success)
             IN  [s |-> w.s, log |-> UpdateLog(confirmed, w, changed)]

\* Mutant of handle_coordinator_update: a snapshot without the device aborts
\* the switching operation
handle_coordinator_update_AbortsOnMissing(s, d, t, last_update_success) ==
    LET device == get_device(s, d)
    IN  IF device = None
        THEN async_write_ha_state(ResetPending(s), d, t, last_update_success)
        ELSE LET new_state == ApiState(Val(device))
                 changed == new_state # s.current_state /\ ~ s.is_switching
                 s1 == IF changed THEN [s EXCEPT !.current_state = new_state] ELSE s
                 confirmed == s1.is_switching /\ s1.pending_state = Some(new_state)
                 s2 == IF confirmed THEN ConfirmPending(s1, new_state) ELSE s1
                 w == async_write_ha_state(s2, d, t, last_update_success)
             IN  [s |-> w.s, log |-> UpdateLog(confirmed, w, changed)]

\* OctopusSwitch._handle_coordinator_update at instant t under the new
\* snapshot d, whose devices all carry an id: the entity's fields after it,
\* and what it logged.  _update_attributes assigns the extra state
\* attributes only; the state is written once, at the end, whatever the
\* snapshot.
handle_coordinator_update(s, d, t, last_update_success) ==
    LET device == get_device(s, d)
    IN  IF device = None
        THEN async_write_ha_state(s, d, t, last_update_success)
        ELSE LET new_state == ApiState(Val(device))
                 changed == new_state # s.current_state /\ ~ s.is_switching
                 s1 == IF changed THEN [s EXCEPT !.current_state = new_state] ELSE s
                 confirmed == s1.is_switching /\ s1.pending_state = Some(new_state)
                 s2 == IF confirmed THEN ConfirmPending(s1, new_state) ELSE s1
                 w == async_write_ha_state(s2, d, t, last_update_success)
             IN  [s |-> w.s, log |-> UpdateLog(confirmed, w, changed)]

---------------------------------------------------------------------------
(* The switch: the toggle coroutines *)

\* A toggle coroutine: its target, its position (awaiting the API call,
\* sleeping, awaiting the refresh it asked for, finished), the instant it was
\* called, the actions it has sent to change_device_suspension, what that
\* call answered and when, the instant its sleep ends and how many times it
\* has asked the coordinator for a refresh.
NewTask(target, action, t) ==
    [ target |-> target, pc |-> "api", at |-> t, calls |-> << action >>,
      result |-> "none", returned |-> None, wake |-> None, refreshes |-> 0 ]

\* A toggle that async_write_ha_state ended before the API call was sent
Aborted(task) == [task EXCEPT !.pc = "done", !.calls = << >>]

\* async_turn_on up to its first await: Pending(True), the state is written,
\* the API call is sent.  An exception of the write leaves the coroutine
\* before the call.
turn_on_started(s, d, t, last_update_success) ==
    LET w == async_write_ha_state(SetPending(s, TRUE, t), d, t, last_update_success)
        task == NewTask(TRUE, "UNSUSPEND", t)
    IN  [s |-> w.s,
         task |-> IF IsError(w.log) THEN Aborted(task) ELSE task,
         log |-> w.log]

\* async_turn_off up to its first await: Pending(False), the state is
\* written, the API call is sent
turn_off_started(s, d, t, last_update_success) ==
    LET w == async_write_ha_state(SetPending(s, FALSE, t), d, t, last_update_success)
        task == NewTask(FALSE, "SUSPEND", t)
    IN  [s |-> w.s,
         task |-> IF IsError(w.log) THEN Aborted(task) ELSE task,
         log |-> w.log]

\* The failure branches of a toggle: the pending fields are reset and the
\* state is written.  The branch of a false return lies inside the try, so
\* that an exception of its write runs the except branch, which does the
\* same once more and ends in the same exception.
failure_branch(s, d, t, last_update_success) ==
    async_write_ha_state(ResetPending(s), d, t, last_update_success)

\* Mutant of turn_on_resumed: the refresh is asked for without the delay
turn_on_resumed_NoSleep(s, task, r, t, d, last_update_success) ==
    IF r = "true"
    THEN [s |-> s,
          task |-> [task EXCEPT !.pc = "sleep", !.result = r,
                                !.returned = Some(t),
                                !.wake = Some(t)],
          log |-> "none"]
    ELSE LET w == failure_branch(s, d, t, last_update_success)
         IN  [s |-> w.s,
              task |-> [task EXCEPT !.pc = "done", !.result = r],
              log |-> w.log]

\* async_turn_on resumed at instant t by the API call's answer r
turn_on_resumed(s, task, r, t, d, last_update_success) ==
    IF r = "true"
    THEN [s |-> s,
          task |-> [task EXCEPT !.pc = "sleep", !.result = r,
                                !.returned = Some(t),
                                !.wake = Some(t + SleepSeconds)],
          log |-> "none"]
    ELSE LET w == failure_branch(s, d, t, last_update_success)
         IN  [s |-> w.s,
              task |-> [task EXCEPT !.pc = "done", !.result = r],
              log |-> w.log]

\* Mutant of turn_off_resumed: a failed call leaves the pending state behind
turn_off_resumed_KeepsPending(s, task, r, t, d, last_update_success) ==
    IF r = "true"
    THEN [s |-> s,
          task |-> [task EXCEPT !.pc = "sleep", !.result = r,
                                !.returned = Some(t),
                                !.wake = Some(t + SleepSeconds)],
          log |-> "none"]
    ELSE LET w == async_write_ha_state(s, d, t, last_update_success)
         IN  [s |-> w.s,
              task |-> [task EXCEPT !.pc = "done", !.result = r],
              log |-> w.log]

\* async_turn_off resumed at instant t by the API call's answer r
turn_off_resumed(s, task, r, t, d, last_update_success) ==
    IF r = "true"
    THEN [s |-> s,
          task |-> [task EXCEPT !.pc = "sleep", !.result = r,
                                !.returned = Some(t),
                                !.wake = Some(t + SleepSeconds)],
          log |-> "none"]
    ELSE LET w == failure_branch(s, d, t, last_update_success)
         IN  [s |-> w.s,
              task |-> [task EXCEPT !.pc = "done", !.result = r],
              log |-> w.log]

\* What awaiting coordinator.async_request_refresh() does at once: it
\* returns, it raises, or it suspends the coroutine
RefreshAnswers == {"ok", "raise", "await"}

\* A toggle resumed at instant t after asyncio.sleep(3): it asks the
\* coordinator for a refresh, inside the try.  The request returns and the
\* coroutine ends, or it raises and the except branch runs, or the coroutine
\* is left awaiting it.
turn_woken(s, task, r, t, d, last_update_success) ==
    LET asked == [task EXCEPT !.refreshes = @ + 1]
    IN  IF r = "await"
        THEN [s |-> s, task |-> [asked EXCEPT !.pc = "refresh"], log |-> "none"]
        ELSE IF r = "ok"
        THEN [s |-> s, task |-> [asked EXCEPT !.pc = "done"], log |-> "none"]
        ELSE LET w == failure_branch(s, d, t, last_update_success)
             IN  [s |-> w.s, task |-> [asked EXCEPT !.pc = "done"], log |-> w.log]

\* A toggle resumed at instant t by the end of the refresh it awaited: the
\* coroutine ends, through the except branch when the refresh raised
turn_refreshed(s, task, r, t, d, last_update_success) ==
    IF r = "ok"
    THEN [s |-> s, task |-> [task EXCEPT !.pc = "done"], log |-> "none"]
    ELSE LET w == failure_branch(s, d, t, last_update_success)
         IN  [s |-> w.s, task |-> [task EXCEPT !.pc = "done"], log |-> w.log]

Event(op, ret, log) == [op |-> op, ret |-> ret, log |-> log]

ApiAnswers == {"true", "false", "raise"}

async_turn_on ==
    /\ Len(tasks) < MaxToggles
    /\ LET r == turn_on_started(sw, data, now, success)
       IN  /\ sw' = r.s
           /\ tasks' = Append(tasks, r.task)
           /\ last' = Event("async_turn_on", None, r.log)
    /\ UNCHANGED <<data, now, ticks, notSwitch>>

async_turn_off ==
    /\ Len(tasks) < MaxToggles
    /\ LET r == turn_off_started(sw, data, now, success)
       IN  /\ sw' = r.s
           /\ tasks' = Append(tasks, r.task)
           /\ last' = Event("async_turn_off", None, r.log)
    /\ UNCHANGED <<data, now, ticks, notSwitch>>

\* change_device_suspension answers the toggle i: true, false or an exception
ApiReturns ==
    \E i \in DOMAIN tasks : \E r \in ApiAnswers :
        /\ tasks[i].pc = "api"
        /\ LET res == IF tasks[i].target
                      THEN turn_on_resumed(sw, tasks[i], r, now, data, success)
                      ELSE turn_off_resumed(sw, tasks[i], r, now, data, success)
           IN  /\ sw' = res.s
               /\ tasks' = [tasks EXCEPT ![i] = res.task]
               /\ last' = Event("api_" \o r, None, res.log)
        /\ UNCHANGED <<data, now, ticks, notSwitch>>

\* asyncio.sleep(3) of the toggle i is over and it asks for the refresh
SleepElapsed ==
    \E i \in DOMAIN tasks : \E r \in RefreshAnswers :
        /\ tasks[i].pc = "sleep"
        /\ now >= Val(tasks[i].wake)
        /\ LET res == turn_woken(sw, tasks[i], r, now, data, success)
           IN  /\ sw' = res.s
               /\ tasks' = [tasks EXCEPT ![i] = res.task]
               /\ last' = Event("request_refresh_" \o r, None, res.log)
        /\ UNCHANGED <<data, now, ticks, notSwitch>>

\* The refresh the toggle i awaits is over: it returns or it raises
RefreshReturns ==
    \E i \in DOMAIN tasks : \E r \in RefreshAnswers \ {"await"} :
        /\ tasks[i].pc = "refresh"
        /\ LET res == turn_refreshed(sw, tasks[i], r, now, data, success)
           IN  /\ sw' = res.s
               /\ tasks' = [tasks EXCEPT ![i] = res.task]
               /\ last' = Event("refreshed_" \o r, None, res.log)
        /\ UNCHANGED <<data, now, ticks, notSwitch>>

\* The coordinator completes a refresh: a new snapshot replaces the old one
\* and the entity's _handle_coordinator_update runs.
CoordinatorRefresh ==
    \E d \in SwitchSnapshots :
        /\ data' = d
        /\ LET r == handle_coordinator_update(sw, d, now, success)
           IN  /\ sw' = r.s
               /\ last' = Event("refresh", None, r.log)
        /\ UNCHANGED <<now, ticks, tasks, notSwitch>>

\* The host reads the is_on property
ReadIsOn ==
    /\ LET r == is_on(sw, data, now)
       IN  /\ sw' = r.s
           /\ last' = Event("is_on", Some(r.ret), r.log)
    /\ UNCHANGED <<data, now, ticks, tasks, notSwitch>>

\* Time passes
Tick ==
    \E d \in ClockSteps :
        /\ ticks < MaxTicks
        /\ now' = now + d
        /\ ticks' = ticks + 1
        /\ last' = Event("tick", None, "none")
        /\ UNCHANGED <<data, sw, tasks, notSwitch>>

\* The entity is built by async_setup_entry from a snapshot that holds its
\* device d1 of account A1.
InitialSnapshots ==
    { d \in SwitchSnapshots :
        d # None /\ "A1" \in DOMAIN Val(d)
        /\ \E i \in DOMAIN Val(d)["A1"].devices : Val(d)["A1"].devices[i].id = "d1" }

FirstDevice(d, id) ==
    LET devices == Val(d)["A1"].devices
    IN  devices[SetMin({ i \in DOMAIN devices : devices[i].id = id })]

NoEntry == [account_numbers |-> << >>, account_number |-> None, keys |-> << >>]
NoReading == [sensor |-> "none", ret |-> None, used |-> None]
Midnight == [hour |-> 0, minute |-> 0, second |-> 0]
NoInstant == [iso |-> << >>, time |-> Midnight]
NoWindow ==
    [sensor |-> "none", current_time |-> Midnight, time_from |-> Midnight,
     time_to |-> Midnight, ret |-> None]

Init ==
    /\ data \in InitialSnapshots
    /\ now = 0
    /\ ticks = 0
    /\ sw = OctopusSwitch(FirstDevice(data, "d1"), "A1", data).s
    /\ tasks = << >>
    /\ last = Event("init", None, "none")
    /\ entry = NoEntry
    /\ switches = << >>
    /\ instant = NoInstant
    /\ reading = NoReading
    /\ window = NoWindow
    /\ price = None
    /\ success = TRUE

Next ==
    \/ async_turn_on
    \/ async_turn_off
    \/ ApiReturns
    \/ SleepElapsed
    \/ RefreshReturns
    \/ CoordinatorRefresh
    \/ ReadIsOn
    \/ Tick

Spec == Init /\ [][Next]_vars

---------------------------------------------------------------------------
(* The switch: vocabulary of the properties *)

Idle(s) == ~ s.is_switching /\ s.pending_state = None /\ s.pending_until = None

PendingFields(s) == << s.is_switching, s.pending_state, s.pending_until >>

\* The snapshot d holds device d1 of account A1
DevicePresent(d) ==
    /\ d # None
    /\ "A1" \in DOMAIN Val(d)
    /\ \E i \in DOMAIN Val(d)["A1"].devices : Val(d)["A1"].devices[i].id = "d1"

\* What the snapshot d reports for device d1 of account A1: on when the
\* device is there and its status says isSuspended = false.
ReportedOn(d) ==
    /\ DevicePresent(d)
    /\ \E i \in DOMAIN Val(d)["A1"].devices :
          LET dev == Val(d)["A1"].devices[i]
          IN  /\ dev.id = "d1"
              /\ "status" \in DOMAIN dev
              /\ "isSuspended" \in DOMAIN dev.status
              /\ ~ dev.status.isSuspended

Latest == tasks[Len(tasks)]

Deadline(task) == task.at + PendingTimeout

Action(target) == IF target THEN "UNSUSPEND" ELSE "SUSPEND"

\* The switch is Pending on behalf of the toggle task
Optimistic(s, task) ==
    /\ s.is_switching
    /\ s.pending_state = Some(task.target)
    /\ s.pending_until = Some(Deadline(task))

---------------------------------------------------------------------------
(* C1 *)

OthersDone(ts, i) == \A j \in DOMAIN ts \ {i} : ts[j].pc = "done"

---------------------------------------------------------------------------
(* C2 *)

\* C2: when the switch is Pending(target) and a refresh delivers a snapshot
\* that holds the device with actual state (not isSuspended) equal to target,
\* then after _handle_coordinator_update the switch is Idle and a read of
\* is_on made right then returns target and leaves the switch Idle.
C2_ConfirmingRefresh ==
    [][ ( /\ last'.op = "refresh"
          /\ sw.is_switching /\ sw.pending_state # None
          /\ DevicePresent(data')
          /\ ReportedOn(data') = Val(sw.pending_state) )
        => /\ Idle(sw')
           /\ is_on(sw', data', now').ret = Val(sw.pending_state)
           /\ Idle(is_on(sw', data', now').s) ]_vars

\* A refresh has just confirmed a toggle to off whose API call is still in
\* flight: the switch is Idle and is_on reads off.
C2_Witness ==
    /\ last = Event("refresh", None, "confirmed")
    /\ Len(tasks) = 1 /\ Latest.pc = "api" /\ ~ Latest.target
    /\ Idle(sw)
    /\ is_on(sw, data, now).ret = FALSE

---------------------------------------------------------------------------
(* C3 *)

\* C3: at every instant later than the deadline of the most recent toggle,
\* whatever the API call did, a read of is_on leaves the switch Idle and
\* returns the value the latest snapshot reports.
C3_RevertsAfterDeadline ==
    (Len(tasks) > 0 /\ now > Deadline(Latest))
        => LET r == is_on(sw, data, now)
           IN  /\ Idle(r.s)
               /\ r.ret = ReportedOn(data)

\* The API call of a toggle to on never returned, the deadline has passed,
\* and the read of is_on that timed out returned the snapshot's off.
C3_Witness ==
    /\ Len(tasks) = 1 /\ Latest.pc = "api" /\ Latest.target
    /\ now > Deadline(Latest)
    /\ DevicePresent(data) /\ ~ ReportedOn(data)
    /\ last = Event("is_on", Some(FALSE), "timeout")
    /\ Idle(sw)

---------------------------------------------------------------------------
(* C4 *)

\* C4: right after a toggle has handled a false return or an exception of
\* change_device_suspension the switch is Idle and is_on reports what the
\* latest snapshot reports.
C4_FailureReverts ==
    last.op \in {"api_false", "api_raise"}
        => /\ Idle(sw)
           /\ is_on(sw, data, now).ret = ReportedOn(data)
           /\ Idle(is_on(sw, data, now).s)

\* The call of a toggle to on has just raised while the snapshot reports the
\* device suspended.
C4_Witness ==
    /\ last.op = "api_raise"
    /\ Len(tasks) = 1 /\ Latest.target /\ Latest.result = "raise"
    /\ DevicePresent(data) /\ ~ ReportedOn(data)
    /\ Idle(sw)

---------------------------------------------------------------------------
(* C5 *)

\* C5: while the switch is Pending(target) and the deadline has not passed, a
\* refresh whose snapshot reports a device state other than target, and a
\* read of is_on, leave is_switching, pending_state and the deadline
\* unchanged, and is_on still returns target.
C5_MismatchIgnored ==
    [][ ( /\ sw.is_switching /\ sw.pending_state # None
          /\ sw.pending_until # None /\ now <= Val(sw.pending_until)
          /\ \/ /\ last'.op = "refresh"
                /\ DevicePresent(data')
                /\ ReportedOn(data') # Val(sw.pending_state)
             \/ last'.op = "is_on" )
        => /\ PendingFields(sw') = PendingFields(sw)
           /\ is_on(sw', data', now').ret = Val(sw.pending_state) ]_vars

\* A refresh has just reported the device active while the switch is Pending
\* off at the very instant of its deadline.
C5_Witness ==
    /\ last.op = "refresh"
    /\ sw.is_switching /\ sw.pending_state = Some(FALSE)
    /\ now = Val(sw.pending_until)
    /\ ReportedOn(data)

---------------------------------------------------------------------------
(* C6 *)

\* C6: every toggle has sent exactly one request to change_device_suspension,
\* UNSUSPEND for on and SUSPEND for off, also after a false return or an
\* exception.
C6_OneRequestPerToggle ==
    \A i \in DOMAIN tasks : tasks[i].calls = << Action(tasks[i].target) >>

---------------------------------------------------------------------------
(* C7 *)

\* C7: a toggle asks the coordinator for a refresh at most once, it does so
\* only when change_device_suspension has returned true and SleepSeconds have
\* passed since, and a finished toggle has asked exactly once if the call
\* returned true and never if it returned false or raised.
C7_OneDelayedRefresh ==
    [][ \A i \in DOMAIN tasks' :
          LET before == IF i \in DOMAIN tasks THEN tasks[i].refreshes ELSE 0
              t == tasks'[i]
          IN  /\ t.refreshes <= 1
              /\ t.refreshes > before =>
                    /\ tasks[i].result = "true"
                    /\ now >= Val(tasks[i].returned) + SleepSeconds
              /\ t.result \in {"false", "raise"} => t.refreshes = 0
              /\ (t.pc = "done" /\ t.result = "true") => t.refreshes = 1 ]_vars

\* A toggle whose call returned true has just asked for its refresh, exactly
\* SleepSeconds after the answer.
C7_Witness ==
    /\ last.op = "request_refresh_ok"
    /\ Len(tasks) = 1 /\ Latest.pc = "done" /\ Latest.result = "true"
    /\ Latest.refreshes = 1
    /\ now = Val(Latest.returned) + SleepSeconds

---------------------------------------------------------------------------
(* C9 *)

\* C9: in every state the three reconciler fields agree: is_switching holds
\* exactly when pending_state is set and exactly when the deadline is set.
C9_FieldsAgree ==
    /\ sw.is_switching <=> sw.pending_state # None
    /\ sw.is_switching <=> sw.pending_until # None

\* A toggle awaits its API call while an earlier one has failed: the fields
\* were set and cleared and set again.
C9_Witness ==
    /\ Len(tasks) = 2
    /\ tasks[1].result = "false" /\ tasks[2].pc = "api"
    /\ tasks[2].at > tasks[1].at
    /\ sw.is_switching /\ sw.pending_state # None /\ sw.pending_until # None

---------------------------------------------------------------------------
(* The switch platform: async_setup_entry *)

\* list(coordinator.data.keys()): the snapshot's accounts in the order in
\* which the dictionary received them.  A mapping of the model has no order
\* of its own, so the order comes with it as the sequence order.
Keys(mapping, order) == SelectSeq(order, LAMBDA a : a \in DOMAIN mapping)

\* The outcome of a stretch of async_setup_entry: the entities created, or
\* the exception a constructor raised
Created(made) == [switches |-> made, log |-> "none"]

\* The entities created for the devices of one account: one per device that
\* has an id, in list order, up to a constructor that raises.
RECURSIVE SwitchesOf(_, _, _)
SwitchesOf(devices, acc_num, d) ==
    IF devices = << >>
    THEN Created(<< >>)
    ELSE LET device == Head(devices)
         IN  IF "id" \notin DOMAIN device
             THEN SwitchesOf(Tail(devices), acc_num, d)
             ELSE LET new == OctopusSwitch(device, acc_num, d)
                      rest == SwitchesOf(Tail(devices), acc_num, d)
                  IN  IF IsError(new.log)
                      THEN [switches |-> << >>, log |-> new.log]
                      ELSE IF IsError(rest.log)
                      THEN rest
                      ELSE Created(<< new.s >> \o rest.switches)

\* The loop over the account numbers
RECURSIVE SwitchesFor(_, _)
SwitchesFor(account_numbers, d) ==
    IF account_numbers = << >>
    THEN Created(<< >>)
    ELSE LET acc_num == Head(account_numbers)
             mapping == Val(d)
         IN  IF acc_num \notin DOMAIN mapping
             THEN SwitchesFor(Tail(account_numbers), d)
             ELSE LET first == SwitchesOf(Get(mapping[acc_num], "devices", << >>),
                                          acc_num, d)
                      rest == SwitchesFor(Tail(account_numbers), d)
                  IN  IF IsError(first.log)
                      THEN first
                      ELSE IF IsError(rest.log)
                      THEN rest
                      ELSE Created(first.switches \o rest.switches)

\* async_setup_entry: the entities handed to async_add_entities, given the
\* config entry e and the snapshot d, or the exception it ended in before it
\* had handed over any
async_setup_entry(e, d) ==
    IF d = None \/ DOMAIN Val(d) = {}
    THEN Created(<< >>)
    ELSE LET configured == e.account_numbers
             single == IF configured = << >> /\ e.account_number # None
                       THEN << Val(e.account_number) >>
                       ELSE configured
             account_numbers == IF single = << >> THEN Keys(Val(d), e.keys) ELSE single
         IN  SwitchesFor(account_numbers, d)

\* The device lists of an account in a snapshot handed to setup
SetupDeviceLists ==
    { << >>,
      << Device("d1", "active") >>,
      << Device("d1", "suspended"), Device("d2", "active") >>,
      << [status |-> [isSuspended |-> FALSE]], Device("d2", "nostatus") >> }

SetupSnapshots ==
    { None }
    \cup { Some([A1 |-> [devices |-> l]]) : l \in SetupDeviceLists }
    \cup { Some([A1 |-> [devices |-> l], A2 |-> [devices |-> m]]) :
             l \in SetupDeviceLists, m \in SetupDeviceLists }

\* The orders in which a snapshot can hold the accounts of the model
AccountOrders == { << >>, << "A1" >>, << "A2" >>, << "A1", "A2" >>, << "A2", "A1" >> }

\* The orders in which the snapshot d can hold its accounts
KeyOrders(d) ==
    IF d = None
    THEN { << >> }
    ELSE { o \in AccountOrders : { o[i] : i \in DOMAIN o } = DOMAIN Val(d) }

SetupEntries ==
    [ account_numbers : { << >>, << "A1" >>, << "A2", "A1" >>, << "A3" >> },
      account_number : { None, Some("A1"), Some("A2") },
      keys : AccountOrders ]

SetupEntry ==
    /\ last.op = "init"
    /\ LET r == async_setup_entry(entry, data)
       IN  /\ switches' = r.switches
           /\ last' = Event("setup", None, r.log)
    /\ UNCHANGED <<data, entry, notSetup>>

SetupInit ==
    /\ data \in SetupSnapshots
    /\ entry \in { e \in SetupEntries : e.keys \in KeyOrders(data) }
    /\ switches = << >>
    /\ last = Event("init", None, "none")
    /\ now = 0
    /\ ticks = 0
    /\ sw = None
    /\ tasks = << >>
    /\ instant = NoInstant
    /\ reading = NoReading
    /\ window = NoWindow
    /\ price = None
    /\ success = TRUE

SetupNext == SetupEntry

SetupSpec == SetupInit /\ [][SetupNext]_vars

---------------------------------------------------------------------------
(* C8 *)

\* C8: any two switch entities that setup created for two different devices
\* carry different unique identifiers, also within one account.
C8_UniqueIdsDiffer ==
    \A i, j \in DOMAIN switches :
        switches[i].device_id # switches[j].device_id
            => switches[i].unique_id # switches[j].unique_id

---------------------------------------------------------------------------
(* The price sensors: strings, numbers and times of day *)

\* A timestamp string is the sequence of its characters (small numbers stand
\* for them); a <= b on Python strings is lexicographic, a proper prefix
\* being smaller.  The empty sequence is both "" and None: the code tests
\* either with "not".
RECURSIVE StrLeq(_, _)
StrLeq(a, b) ==
    IF a = << >> THEN TRUE
    ELSE IF b = << >> THEN FALSE
    ELSE IF a[1] # b[1] THEN a[1] < b[1]
    ELSE StrLeq(Tail(a), Tail(b))

StrLess(a, b) == StrLeq(a, b) /\ a # b

\* A float is kept as the reduced fraction n / d, n >= 0 and d > 0
RECURSIVE Gcd(_, _)
Gcd(a, b) == IF b = 0 THEN a ELSE Gcd(b, a % b)

Rat(n, d) == LET g == Gcd(n, d) IN [n |-> n \div g, d |-> d \div g]

\* The rate strings float() accepts, with their values; float() raises
\* ValueError on every other string and TypeError on None.
FloatOf ==
    ("0" :> Rat(0, 1)) @@ ("1000" :> Rat(1000, 1)) @@ ("1500" :> Rat(1500, 1))
    @@ ("2000" :> Rat(2000, 1)) @@ ("2550" :> Rat(2550, 1))
    @@ ("3000" :> Rat(3000, 1)) @@ ("3500" :> Rat(3500, 1))
    @@ ("4000" :> Rat(4000, 1)) @@ ("27.35" :> Rat(2735, 100))

\* The conversion rounded down to whole euros
Euros_Rounded(x) ==
    IF x \in DOMAIN FloatOf
    THEN Some(Rat(FloatOf[x].n \div (FloatOf[x].d * 100), 1))
    ELSE None

\* float(x) / 100.0, or None when float(x) raises
Euros(x) ==
    IF x \in DOMAIN FloatOf
    THEN Some(Rat(FloatOf[x].n, FloatOf[x].d * 100))
    ELSE None

\* A time string is the sequence of its ":"-separated fields, each the
\* integer int() reads from it; a field int() rejects is written -1, which
\* time() rejects with the same ValueError.
\* _parse_time: the time of day [hour, minute, second], or None
parse_time(time_str) ==
    IF /\ Len(time_str) = 3
       /\ time_str[1] \in 0..23
       /\ time_str[2] \in 0..59
       /\ time_str[3] \in 0..59
    THEN Some([hour |-> time_str[1], minute |-> time_str[2], second |-> time_str[3]])
    ELSE None

\* The order of datetime.time values.  The microseconds of the current time
\* are left out: the parsed times have none, and no comparison of the code
\* (from <= current, current >= from, current < to) depends on them.
Seconds(t) == (t.hour * 60 + t.minute) * 60 + t.second

\* _is_time_between with no window across midnight
is_time_between_NoWrap(current_time, time_from, time_to) ==
    IF time_to = Midnight
    THEN time_from = Midnight \/ Seconds(current_time) >= Seconds(time_from)
    ELSE /\ Seconds(time_from) <= Seconds(current_time)
         /\ Seconds(current_time) < Seconds(time_to)

\* _is_time_between without the case of a window that ends at 00:00:00
is_time_between_NoMidnight(current_time, time_from, time_to) ==
    IF Seconds(time_from) <= Seconds(time_to)
    THEN /\ Seconds(time_from) <= Seconds(current_time)
         /\ Seconds(current_time) < Seconds(time_to)
    ELSE \/ Seconds(time_from) <= Seconds(current_time)
         \/ Seconds(current_time) < Seconds(time_to)

\* _is_time_between with the end of a window within the day included
is_time_between_EndIncluded(current_time, time_from, time_to) ==
    IF time_to = Midnight
    THEN time_from = Midnight \/ Seconds(current_time) >= Seconds(time_from)
    ELSE IF Seconds(time_from) <= Seconds(time_to)
    THEN /\ Seconds(time_from) <= Seconds(current_time)
         /\ Seconds(current_time) <= Seconds(time_to)
    ELSE \/ Seconds(time_from) <= Seconds(current_time)
         \/ Seconds(current_time) < Seconds(time_to)

\* _is_time_between
is_time_between(current_time, time_from, time_to) ==
    IF time_to.hour = 0 /\ time_to.minute = 0 /\ time_to.second = 0
    THEN IF time_from.hour = 0 /\ time_from.minute = 0 /\ time_from.second = 0
         THEN TRUE
         ELSE \/ Seconds(current_time) >= Seconds(time_from)
              \/ Seconds(current_time) < Seconds(time_to)
    ELSE IF Seconds(time_from) <= Seconds(time_to)
    THEN /\ Seconds(time_from) <= Seconds(current_time)
         /\ Seconds(current_time) < Seconds(time_to)
    ELSE \/ Seconds(time_from) <= Seconds(current_time)
         \/ Seconds(current_time) < Seconds(time_to)

MidnightStr == << 0, 0, 0 >>

\* Mutant of ScanRules: a timeslot without rate is passed over like one whose
\* rate does not parse
RECURSIVE ScanRules_AbsentRateSkipped(_, _, _)
ScanRules_AbsentRateSkipped(rules, timeslot, current_time) ==
    IF rules = << >>
    THEN None
    ELSE LET rule == Head(rules)
             from_time == parse_time(Get(rule, "from_time", MidnightStr))
             to_time == parse_time(Get(rule, "to_time", MidnightStr))
             rate == IF "rate" \in DOMAIN timeslot THEN Euros(timeslot.rate) ELSE None
         IN  IF /\ from_time # None
                /\ to_time # None
                /\ is_time_between(current_time, Val(from_time), Val(to_time))
                /\ rate # None
             THEN rate
             ELSE ScanRules_AbsentRateSkipped(Tail(rules), timeslot, current_time)

\* The loop over the activation rules of one timeslot: the rate of the
\* timeslot at the first rule that contains current_time, when it parses
RECURSIVE ScanRules(_, _, _)
ScanRules(rules, timeslot, current_time) ==
    IF rules = << >>
    THEN None
    ELSE LET rule == Head(rules)
             from_time == parse_time(Get(rule, "from_time", MidnightStr))
             to_time == parse_time(Get(rule, "to_time", MidnightStr))
             rate == Euros(Get(timeslot, "rate", "0"))
         IN  IF /\ from_time # None
                /\ to_time # None
                /\ is_time_between(current_time, Val(from_time), Val(to_time))
                /\ rate # None
             THEN rate
             ELSE ScanRules(Tail(rules), timeslot, current_time)

\* The loop over the timeslots, given up at the first timeslot that has a
\* rule containing current_time, whether its rate parses or not
RECURSIVE ScanTimeslots_StopsAtBadRate(_, _)
ScanTimeslots_StopsAtBadRate(timeslots, current_time) ==
    IF timeslots = << >>
    THEN None
    ELSE LET timeslot == Head(timeslots)
             rules == Get(timeslot, "activation_rules", << >>)
             rate == ScanRules(rules, timeslot, current_time)
             matched ==
                 \E k \in DOMAIN rules :
                     LET from_time == parse_time(Get(rules[k], "from_time", MidnightStr))
                         to_time == parse_time(Get(rules[k], "to_time", MidnightStr))
                     IN  /\ from_time # None
                         /\ to_time # None
                         /\ is_time_between(current_time, Val(from_time), Val(to_time))
         IN  IF rate # None \/ matched
             THEN rate
             ELSE ScanTimeslots_StopsAtBadRate(Tail(timeslots), current_time)

\* The loop over the timeslots
RECURSIVE ScanTimeslots(_, _)
ScanTimeslots(timeslots, current_time) ==
    IF timeslots = << >>
    THEN None
    ELSE LET timeslot == Head(timeslots)
             rate == ScanRules(Get(timeslot, "activation_rules", << >>),
                               timeslot, current_time)
         IN  IF rate # None
             THEN rate
             ELSE ScanTimeslots(Tail(timeslots), current_time)

\* _get_active_timeslot_rate
get_active_timeslot_rate(product, current_time) ==
    IF DOMAIN product = {}
    THEN None
    ELSE IF Get(product, "type", "") = "Simple"
    THEN Euros(Get(product, "grossRate", "0"))
    ELSE IF Get(product, "type", "") = "TimeOfUse" /\ "timeslots" \in DOMAIN product
    THEN ScanTimeslots(product.timeslots, current_time)
    ELSE None

\* The validity test of native_value's filter loop
IsCurrentlyValid(product, now_iso) ==
    LET valid_from == Get(product, "validFrom", None)
        valid_to == Get(product, "validTo", None)
    IN  /\ valid_from # << >>
        /\ StrLeq(valid_from, now_iso)
        /\ (valid_to = << >> \/ StrLeq(now_iso, valid_to))

\* Mutant of InsertDesc: p also goes ahead of the elements with an equal key,
\* which makes the sort unstable
RECURSIVE InsertDesc_Unstable(_, _)
InsertDesc_Unstable(p, sorted) ==
    IF sorted = << >>
    THEN << p >>
    ELSE IF StrLeq(Get(Head(sorted), "validFrom", << >>), Get(p, "validFrom", << >>))
    THEN << p >> \o sorted
    ELSE << Head(sorted) >> \o InsertDesc_Unstable(p, Tail(sorted))

\* list.sort(key=validFrom, reverse=True): a stable sort, greatest key first.
\* InsertDesc puts p behind every element whose key is not smaller.
RECURSIVE InsertDesc(_, _)
InsertDesc(p, sorted) ==
    IF sorted = << >>
    THEN << p >>
    ELSE IF StrLess(Get(Head(sorted), "validFrom", << >>), Get(p, "validFrom", << >>))
    THEN << p >> \o sorted
    ELSE << Head(sorted) >> \o InsertDesc(p, Tail(sorted))

RECURSIVE SortDesc(_)
SortDesc(products) ==
    IF products = << >>
    THEN << >>
    ELSE InsertDesc(products[Len(products)],
                    SortDesc(SubSeq(products, 1, Len(products) - 1)))

\* The choice without the sort: the first product in force
current_product_Unsorted(products, now_iso) ==
    LET valid_products == SelectSeq(products, LAMBDA p : IsCurrentlyValid(p, now_iso))
    IN  IF valid_products = << >>
        THEN None
        ELSE Some(Head(valid_products))

\* native_value's choice of current_product among products, or None
current_product(products, now_iso) ==
    LET valid_products == SelectSeq(products, LAMBDA p : IsCurrentlyValid(p, now_iso))
    IN  IF valid_products = << >>
        THEN None
        ELSE Some(Head(SortDesc(valid_products)))

\* The rate without the fall back to grossRate
rate_of_NoFallback(product, current_time) ==
    IF Get(product, "type", "") = "TimeOfUse"
    THEN get_active_timeslot_rate(product, current_time)
    ELSE Euros(Get(product, "grossRate", "0"))

\* native_value's rate of the chosen product
rate_of(product, current_time) ==
    LET active_rate == IF Get(product, "type", "") = "TimeOfUse"
                       THEN get_active_timeslot_rate(product, current_time)
                       ELSE None
    IN  IF active_rate # None
        THEN active_rate
        ELSE Euros(Get(product, "grossRate", "0"))

NoValue == [ret |-> None, used |-> None]

\* OctopusElectricityPriceSensor.native_value of the sensor of account
\* account_number under snapshot d at instant inst: the value returned and
\* the product the debug log names as used
native_value(account_number, d, inst) ==
    IF d = None \/ DOMAIN Val(d) = {} \/ account_number \notin DOMAIN Val(d)
    THEN NoValue
    ELSE LET products == Get(Val(d)[account_number], "products", << >>)
             chosen == current_product(products, inst.iso)
         IN  IF products = << >> \/ chosen = None
             THEN NoValue
             ELSE [ret |-> rate_of(Val(chosen), inst.time), used |-> chosen]

---------------------------------------------------------------------------
(* The gas price sensor: the same methods, written a second time in the
   source *)

\* _parse_time: the time of day [hour, minute, second], or None
gas_parse_time(time_str) ==
    IF /\ Len(time_str) = 3
       /\ time_str[1] \in 0..23
       /\ time_str[2] \in 0..59
       /\ time_str[3] \in 0..59
    THEN Some([hour |-> time_str[1], minute |-> time_str[2], second |-> time_str[3]])
    ELSE None

\* _is_time_between
gas_is_time_between(current_time, time_from, time_to) ==
    IF time_to.hour = 0 /\ time_to.minute = 0 /\ time_to.second = 0
    THEN IF time_from.hour = 0 /\ time_from.minute = 0 /\ time_from.second = 0
         THEN TRUE
         ELSE \/ Seconds(current_time) >= Seconds(time_from)
              \/ Seconds(current_time) < Seconds(time_to)
    ELSE IF Seconds(time_from) <= Seconds(time_to)
    THEN /\ Seconds(time_from) <= Seconds(current_time)
         /\ Seconds(current_time) < Seconds(time_to)
    ELSE \/ Seconds(time_from) <= Seconds(current_time)
         \/ Seconds(current_time) < Seconds(time_to)

\* The loop over the activation rules of one timeslot: the rate of the
\* timeslot at the first rule that contains current_time, when it parses
RECURSIVE gas_ScanRules(_, _, _)
gas_ScanRules(rules, timeslot, current_time) ==
    IF rules = << >>
    THEN None
    ELSE LET rule == Head(rules)
             from_time == gas_parse_time(Get(rule, "from_time", MidnightStr))
             to_time == gas_parse_time(Get(rule, "to_time", MidnightStr))
             rate == Euros(Get(timeslot, "rate", "0"))
         IN  IF /\ from_time # None
                /\ to_time # None
                /\ gas_is_time_between(current_time, Val(from_time), Val(to_time))
                /\ rate # None
             THEN rate
             ELSE gas_ScanRules(Tail(rules), timeslot, current_time)

\* The loop over the timeslots
RECURSIVE gas_ScanTimeslots(_, _)
gas_ScanTimeslots(timeslots, current_time) ==
    IF timeslots = << >>
    THEN None
    ELSE LET timeslot == Head(timeslots)
             rate == gas_ScanRules(Get(timeslot, "activation_rules", << >>),
                               timeslot, current_time)
         IN  IF rate # None
             THEN rate
             ELSE gas_ScanTimeslots(Tail(timeslots), current_time)

\* _get_active_timeslot_rate
gas_get_active_timeslot_rate(product, current_time) ==
    IF DOMAIN product = {}
    THEN None
    ELSE IF Get(product, "type", "") = "Simple"
    THEN Euros(Get(product, "grossRate", "0"))
    ELSE IF Get(product, "type", "") = "TimeOfUse" /\ "timeslots" \in DOMAIN product
    THEN gas_ScanTimeslots(product.timeslots, current_time)
    ELSE None

\* Mutant of gas_IsCurrentlyValid: a gas product is over at its validTo
gas_IsCurrentlyValid_EndsAtValidTo(product, now_iso) ==
    LET valid_from == Get(product, "validFrom", None)
        valid_to == Get(product, "validTo", None)
    IN  /\ valid_from # << >>
        /\ StrLeq(valid_from, now_iso)
        /\ (valid_to = << >> \/ StrLess(now_iso, valid_to))

\* The validity test of OctopusGasPriceSensor.native_value's filter loop
gas_IsCurrentlyValid(product, now_iso) ==
    LET valid_from == Get(product, "validFrom", None)
        valid_to == Get(product, "validTo", None)
    IN  /\ valid_from # << >>
        /\ StrLeq(valid_from, now_iso)
        /\ (valid_to = << >> \/ StrLeq(now_iso, valid_to))

\* OctopusGasPriceSensor.native_value's choice of current_product among gas_products, or None
gas_current_product(products, now_iso) ==
    LET valid_products == SelectSeq(products, LAMBDA p : gas_IsCurrentlyValid(p, now_iso))
    IN  IF valid_products = << >>
        THEN None
        ELSE Some(Head(SortDesc(valid_products)))

\* OctopusGasPriceSensor.native_value's rate of the chosen product
gas_rate_of(product, current_time) ==
    LET active_rate == IF Get(product, "type", "") = "TimeOfUse"
                       THEN gas_get_active_timeslot_rate(product, current_time)
                       ELSE None
    IN  IF active_rate # None
        THEN active_rate
        ELSE Euros(Get(product, "grossRate", "0"))

\* OctopusGasPriceSensor.native_value of the sensor of account
\* account_number under snapshot d at instant inst: the value returned and
\* the product the debug log names as used
gas_native_value(account_number, d, inst) ==
    IF d = None \/ DOMAIN Val(d) = {} \/ account_number \notin DOMAIN Val(d)
    THEN NoValue
    ELSE LET gas_products == Get(Val(d)[account_number], "gas_products", << >>)
             chosen == gas_current_product(gas_products, inst.iso)
         IN  IF gas_products = << >> \/ chosen = None
             THEN NoValue
             ELSE [ret |-> gas_rate_of(Val(chosen), inst.time), used |-> chosen]

---------------------------------------------------------------------------
(* The price sensors as a state machine: a snapshot and an instant are
   drawn, and the host reads the two sensors of account A1 *)

MaxProducts == 3

\* Timestamps, oldest first: "1" < "2" < "21" < "3"; "2" is a proper prefix
\* of "21", as an instant without fraction is of one with.
T1 == << 1 >>
T2 == << 2 >>
T2x == << 2, 1 >>
T3 == << 3 >>

Simple(code, rate) == ("code" :> code) @@ ("type" :> "Simple") @@ ("grossRate" :> rate)

From(valid_from) == "validFrom" :> valid_from

To(valid_to) == "validTo" :> valid_to

Rule(from_time, to_time) == [from_time |-> from_time, to_time |-> to_time]

NightSlots ==
    << [rate |-> "1000", activation_rules |-> << Rule(<< 22, 0, 0 >>, << 6, 0, 0 >>) >>] >>

\* The products of the snapshots: without validFrom, with an empty one, open
\* ended, closed, two that share validFrom, time-of-use, not yet in force,
\* with an unparsable rate, and ended before it began
Products ==
    { Simple("NOFROM", "1000"),
      Simple("EMPTYFROM", "1500") @@ From(<< >>),
      Simple("OLD", "2000") @@ From(T1),
      Simple("CLOSED", "2550") @@ From(T1) @@ To(T2),
      Simple("MID", "3000") @@ From(T2) @@ To(<< >>),
      Simple("TIE", "3500") @@ From(T2) @@ To(T3),
      ("code" :> "NIGHT") @@ ("type" :> "TimeOfUse") @@ ("grossRate" :> "4000")
          @@ ("timeslots" :> NightSlots) @@ From(T2x),
      Simple("FUTURE", "27.35") @@ From(T3),
      Simple("BAD", "abc") @@ From(T1) @@ To(T2x),
      Simple("ENDED", "1500") @@ From(T2x) @@ To(T1) }

ProductLists == UNION { [1..n -> Products] : n \in 0..MaxProducts }

\* Snapshots for the sensors of account A1: none, empty, without the
\* account, and the account with either or both product lists
MaxSlots == 2

DayRule == Rule(<< 6, 0, 0 >>, << 22, 0, 0 >>)
NightRule == Rule(<< 22, 0, 0 >>, << 6, 0, 0 >>)

\* Rules whose from_time ("-1:00:00") or to_time ("24:00") does not parse and
\* that would otherwise contain every time of day
BadFromRule == Rule(<< -1, 0, 0 >>, << 0, 0, 0 >>)
BadToRule == Rule(<< 0, 0, 0 >>, << 24, 0 >>)

RuleLists ==
    { << >>, << DayRule >>, << NightRule >>, << BadFromRule >>,
      << BadToRule, NightRule >>, << BadFromRule, DayRule >>,
      << DayRule, NightRule >> }

\* A timeslot; rate "" stands for a timeslot without the key
Timeslot(rate, rules) ==
    IF rate = ""
    THEN "activation_rules" :> rules
    ELSE ("rate" :> rate) @@ ("activation_rules" :> rules)

Timeslots == { Timeslot(r, l) : r \in { "1000", "2000", "abc", "" }, l \in RuleLists }

SlotLists == UNION { [1..n -> Timeslots] : n \in 0..MaxSlots }

\* A time-of-use product in force at every instant; gross "" stands for a
\* product without grossRate
TimeOfUse(gross, timeslots) ==
    ("code" :> "TOU") @@ ("type" :> "TimeOfUse") @@ From(T1)
    @@ ("timeslots" :> timeslots)
    @@ (IF gross = "" THEN EmptyDict ELSE "grossRate" :> gross)

TouProducts ==
    { TimeOfUse(g, l) : g \in { "4000", "abc", "" }, l \in SlotLists }
    \cup { ("code" :> "TOU") @@ ("type" :> "TimeOfUse") @@ From(T1) @@ ("grossRate" :> "4000") }

\* A simple product without grossRate, in force at every instant
NoGross == ("code" :> "NOGROSS") @@ ("type" :> "Simple") @@ From(T1)

SensorSnapshots ==
    { None, Some(EmptyDict), Some("A2" :> [products |-> << >>]) }
    \cup { Some("A1" :> [products |-> << p >>, gas_products |-> << p >>]) :
               p \in TouProducts \cup { NoGross } }
    \cup { Some("A1" :> [products |-> l, gas_products |-> l]) : l \in ProductLists }
    \cup { Some("A1" :> [products |-> l]) : l \in ProductLists }
    \cup { Some("A1" :> [gas_products |-> l]) : l \in ProductLists }

\* datetime.now(): its isoformat() and its time(), which the code takes from
\* two separate reads of the clock
Instants ==
    { [iso |-> i, time |-> [hour |-> h, minute |-> 30, second |-> 0]] :
        i \in { T2, T2x, T3 }, h \in { 12, 23 } }

ReadElectricityPrice ==
    /\ reading' = [sensor |-> "electricity"] @@ native_value("A1", data, instant)
    /\ last' = Event("native_value", None, "none")
    /\ UNCHANGED <<data, instant, notSensor>>

ReadGasPrice ==
    /\ reading' = [sensor |-> "gas"] @@ gas_native_value("A1", data, instant)
    /\ last' = Event("native_value", None, "none")
    /\ UNCHANGED <<data, instant, notSensor>>

SensorInit ==
    /\ data \in SensorSnapshots
    /\ instant \in Instants
    /\ reading = NoReading
    /\ last = Event("init", None, "none")
    /\ now = 0
    /\ ticks = 0
    /\ sw = None
    /\ tasks = << >>
    /\ entry = NoEntry
    /\ switches = << >>
    /\ window = NoWindow
    /\ price = None
    /\ success = TRUE

SensorNext ==
    \/ ReadElectricityPrice
    \/ ReadGasPrice

SensorSpec == SensorInit /\ [][SensorNext]_vars

---------------------------------------------------------------------------
(* C10 *)

\* The list the sensor that was read takes its products from
ProductsRead ==
    IF data = None \/ "A1" \notin DOMAIN Val(data)
    THEN << >>
    ELSE IF reading.sensor = "electricity"
    THEN Get(Val(data)["A1"], "products", << >>)
    ELSE Get(Val(data)["A1"], "gas_products", << >>)

HasValidFrom(p) == "validFrom" \in DOMAIN p /\ p.validFrom # << >>

\* The positions of the products in force at the instant
InForce ==
    { i \in DOMAIN ProductsRead :
        LET p == ProductsRead[i]
        IN  /\ HasValidFrom(p)
            /\ StrLeq(p.validFrom, instant.iso)
            /\ ("validTo" \notin DOMAIN p \/ p.validTo = << >>
                \/ StrLeq(instant.iso, p.validTo)) }

\* C10: whatever the product list and the instant, the product a price sensor
\* uses is one in force at the instant (it has a validFrom, validFrom <= now,
\* and validTo is absent or now <= validTo) whose validFrom is the greatest
\* among those in force; a product without validFrom is never used, and when
\* no product is in force the value is none.
C10_SelectsLatestInForce ==
    reading.sensor # "none" =>
        IF InForce = {}
        THEN reading.used = None /\ reading.ret = None
        ELSE /\ reading.used # None
             /\ HasValidFrom(Val(reading.used))
             /\ \E i \in InForce :
                    /\ ProductsRead[i] = Val(reading.used)
                    /\ \A j \in InForce :
                           StrLeq(ProductsRead[j].validFrom, ProductsRead[i].validFrom)

\* A sensor was read on a list that holds a product without validFrom ahead
\* of two products in force, the later of the two last, and used that one
C10_Witness ==
    /\ reading.sensor # "none"
    /\ reading.used # None
    /\ \E i, k, l \in DOMAIN ProductsRead :
           /\ i < k /\ k < l
           /\ ~ HasValidFrom(ProductsRead[i])
           /\ k \in InForce /\ l \in InForce
           /\ StrLess(ProductsRead[k].validFrom, ProductsRead[l].validFrom)
           /\ Val(reading.used) = ProductsRead[l]

---------------------------------------------------------------------------
(* C11 *)

\* The rule parses and its window contains the time of day t
RuleContains(rule, t) ==
    LET from_time == parse_time(Get(rule, "from_time", MidnightStr))
        to_time == parse_time(Get(rule, "to_time", MidnightStr))
    IN  /\ from_time # None
        /\ to_time # None
        /\ is_time_between(t, Val(from_time), Val(to_time))

\* The positions of the timeslots of product p with a rule that contains t
SlotsContaining(p, t) ==
    LET timeslots == Get(p, "timeslots", << >>)
    IN  { i \in DOMAIN timeslots :
            LET rules == Get(timeslots[i], "activation_rules", << >>)
            IN  \E k \in DOMAIN rules : RuleContains(rules[k], t) }

UsedTimeOfUse ==
    /\ reading.sensor # "none"
    /\ reading.used # None
    /\ Get(Val(reading.used), "type", "") = "TimeOfUse"

\* C11: when the product used is a TimeOfUse product none of whose rules
\* contains the time of day of the read, the value is the product's own
\* grossRate divided by 100, and none exactly when that grossRate does not
\* parse.
C11_FallsBackToGrossRate ==
    (/\ UsedTimeOfUse
     /\ "grossRate" \in DOMAIN Val(reading.used)
     /\ SlotsContaining(Val(reading.used), instant.time) = {})
        => LET gross == Val(reading.used).grossRate
           IN  IF gross \in DOMAIN FloatOf
               THEN reading.ret = Some(Rat(FloatOf[gross].n, FloatOf[gross].d * 100))
               ELSE reading.ret = None

\* A TimeOfUse product with a timeslot whose rules all miss the time of day
\* was read at its grossRate of 4000 cents
C11_Witness ==
    /\ UsedTimeOfUse
    /\ \E i \in DOMAIN Get(Val(reading.used), "timeslots", << >>) :
           /\ Get(Val(reading.used).timeslots[i], "activation_rules", << >>) # << >>
           /\ Get(Val(reading.used).timeslots[i], "rate", "") = "1000"
    /\ SlotsContaining(Val(reading.used), instant.time) = {}
    /\ reading.ret = Some([n |-> 40, d |-> 1])

---------------------------------------------------------------------------
(* C12 *)

\* The positions of the timeslots of p that have a rule containing t and a
\* rate that parses (an absent rate reads "0")
SlotsPriced(p, t) ==
    { i \in SlotsContaining(p, t) : Get(p.timeslots[i], "rate", "0") \in DOMAIN FloatOf }

\* C12: for a TimeOfUse product, the value is rate / 100 of the first
\* timeslot, in list order, that has a rule which parses and contains the time
\* of day and whose rate parses; rules that do not parse and matching
\* timeslots whose rate does not parse are passed over.
C12_FirstPricedTimeslot ==
    (UsedTimeOfUse /\ SlotsPriced(Val(reading.used), instant.time) # {})
        => LET p == Val(reading.used)
               first == SetMin(SlotsPriced(p, instant.time))
               rate == FloatOf[Get(p.timeslots[first], "rate", "0")]
           IN  reading.ret = Some(Rat(rate.n, rate.d * 100))

\* The first timeslot matches behind a rule that does not parse, but its rate
\* does not parse; the second matches and gives the value, 2000 cents
C12_Witness ==
    /\ UsedTimeOfUse
    /\ LET p == Val(reading.used)
       IN  /\ SlotsContaining(p, instant.time) = { 1, 2 }
           /\ SlotsPriced(p, instant.time) = { 2 }
           /\ p.timeslots[1].activation_rules = << BadToRule, NightRule >>
           /\ Get(p.timeslots[2], "rate", "") = "2000"
           /\ "grossRate" \in DOMAIN p
    /\ reading.ret = Some([n |-> 20, d |-> 1])

---------------------------------------------------------------------------
(* _is_time_between on its own: three times of day are drawn and either
   sensor type evaluates its copy of the method *)

Time(hour, minute, second) == [hour |-> hour, minute |-> minute, second |-> second]

Times ==
    { Midnight, Time(0, 0, 1), Time(2, 0, 0), Time(6, 0, 0), Time(7, 59, 59),
      Time(8, 0, 0), Time(12, 0, 0), Time(22, 0, 0), Time(23, 30, 0),
      Time(23, 59, 59) }

notWindow == <<data, now, ticks, sw, tasks, entry, switches, instant, reading, price, success>>

EvalElectricityWindow ==
    /\ window' = [window EXCEPT
           !.sensor = "electricity",
           !.ret = Some(is_time_between(window.current_time, window.time_from, window.time_to))]
    /\ last' = Event("_is_time_between", None, "none")
    /\ UNCHANGED notWindow

EvalGasWindow ==
    /\ window' = [window EXCEPT
           !.sensor = "gas",
           !.ret = Some(gas_is_time_between(window.current_time, window.time_from, window.time_to))]
    /\ last' = Event("_is_time_between", None, "none")
    /\ UNCHANGED notWindow

WindowInit ==
    /\ window \in { [sensor |-> "none", current_time |-> c, time_from |-> f,
                     time_to |-> t, ret |-> None] : c, f, t \in Times }
    /\ last = Event("init", None, "none")
    /\ data = None
    /\ now = 0
    /\ ticks = 0
    /\ sw = None
    /\ tasks = << >>
    /\ entry = NoEntry
    /\ switches = << >>
    /\ instant = NoInstant
    /\ reading = NoReading
    /\ price = None
    /\ success = TRUE

WindowNext ==
    \/ EvalElectricityWindow
    \/ EvalGasWindow

WindowSpec == WindowInit /\ [][WindowNext]_vars

---------------------------------------------------------------------------
(* C13, C14, C15 *)

\* a < b and a <= b on times of day, field by field
TimeLess(a, b) ==
    \/ a.hour < b.hour
    \/ a.hour = b.hour /\ a.minute < b.minute
    \/ a.hour = b.hour /\ a.minute = b.minute /\ a.second < b.second

TimeLeq(a, b) == a = b \/ TimeLess(a, b)

Evaluated == window.sensor # "none"

\* C13: when from > to and to is not 00:00:00, _is_time_between is true
\* exactly when now >= from or now < to; so 22:00:00 to 06:00:00 contains
\* 23:30:00 and 02:00:00 and not 12:00:00.
C13_WindowAcrossMidnight ==
    (/\ Evaluated
     /\ TimeLess(window.time_to, window.time_from)
     /\ window.time_to # Midnight)
        => Val(window.ret) = (\/ TimeLeq(window.time_from, window.current_time)
                              \/ TimeLess(window.current_time, window.time_to))

\* 22:00:00 to 06:00:00 was found to contain 02:00:00
C13_Witness ==
    /\ Evaluated
    /\ window.time_from = Time(22, 0, 0)
    /\ window.time_to = Time(6, 0, 0)
    /\ window.current_time = Time(2, 0, 0)
    /\ window.ret = Some(TRUE)

\* C14: when to is 00:00:00, _is_time_between is true at every time of day
\* if from is 00:00:00 too, and otherwise exactly when now >= from; so
\* 08:00:00 to 00:00:00 contains 08:00:00 and 23:59:59 and not 07:59:59.
C14_WindowUntilMidnight ==
    (Evaluated /\ window.time_to = Midnight)
        => Val(window.ret) = (\/ window.time_from = Midnight
                              \/ TimeLeq(window.time_from, window.current_time))

\* 08:00:00 to 00:00:00 was found not to contain 07:59:59
C14_Witness ==
    /\ Evaluated
    /\ window.time_from = Time(8, 0, 0)
    /\ window.time_to = Midnight
    /\ window.current_time = Time(7, 59, 59)
    /\ window.ret = Some(FALSE)

\* C15: when from <= to and to is not 00:00:00, _is_time_between is true
\* exactly when from <= now < to; a window with from equal to to contains no
\* time of day.
C15_WindowWithinDay ==
    (/\ Evaluated
     /\ TimeLeq(window.time_from, window.time_to)
     /\ window.time_to # Midnight)
        => /\ Val(window.ret) = (/\ TimeLeq(window.time_from, window.current_time)
                                 /\ TimeLess(window.current_time, window.time_to))
           /\ window.time_from = window.time_to => Val(window.ret) = FALSE

\* 12:00:00 to 12:00:00 was found not to contain 12:00:00
C15_Witness ==
    /\ Evaluated
    /\ window.time_from = Time(12, 0, 0)
    /\ window.time_to = Time(12, 0, 0)
    /\ window.current_time = Time(12, 0, 0)
    /\ window.ret = Some(FALSE)

---------------------------------------------------------------------------
(* C16 *)

UsedSimple ==
    /\ reading.sensor # "none"
    /\ reading.used # None
    /\ Get(Val(reading.used), "type", "") = "Simple"
    /\ "grossRate" \in DOMAIN Val(reading.used)

\* C16: for a Simple product the value is its grossRate, read as a decimal
\* number, divided by exactly 100 (value * 100 = grossRate, nothing rounded
\* away), and none when grossRate is not a number.
C16_ExactHundredth ==
    UsedSimple =>
        LET gross == Val(reading.used).grossRate
        IN  IF gross \in DOMAIN FloatOf
            THEN /\ reading.ret # None
                 /\ Val(reading.ret).n * FloatOf[gross].d * 100
                        = FloatOf[gross].n * Val(reading.ret).d
            ELSE reading.ret = None

\* A Simple product of 2550 cents was read as 25.5
C16_Witness ==
    /\ UsedSimple
    /\ Val(reading.used).grossRate = "2550"
    /\ reading.ret = Some([n |-> 51, d |-> 2])

---------------------------------------------------------------------------
(* The electricity price sensor as an entity: its cached attributes *)

\* The string "Unknown" where a timestamp is expected, in the alphabet of
\* the timestamps
UnknownStamp == << 0 >>

\* default_attributes of _update_attributes
default_attributes(account_number) ==
    [code |-> "Unknown", name |-> "Unknown", description |-> "Unknown",
     type |-> "Unknown", valid_from |-> UnknownStamp, valid_to |-> UnknownStamp,
     meter_id |-> "Unknown", meter_number |-> "Unknown", meter_type |-> "Unknown",
     account_number |-> account_number]

\* The meter fields _update_attributes extracts from the account
meter_attributes(account_data) ==
    LET meter_data == Get(account_data, "meter", EmptyDict)
    IN  IF meter_data # EmptyDict
        THEN [meter_id |-> Get(meter_data, "id", "Unknown"),
              meter_number |-> Get(meter_data, "number", "Unknown"),
              meter_type |-> Get(meter_data, "meterType", "Unknown")]
        ELSE [meter_id |-> "Unknown", meter_number |-> "Unknown", meter_type |-> "Unknown"]

\* timeslot_data of one timeslot, as appended to timeslots_data
timeslot_data(timeslot) ==
    LET rules == Get(timeslot, "activation_rules", << >>)
    IN  [name |-> Get(timeslot, "name", "Unknown"),
         rate |-> Get(timeslot, "rate", "0"),
         activation_rules |->
             [k \in DOMAIN rules |->
                 [from_time |-> Get(rules[k], "from_time", MidnightStr),
                  to_time |-> Get(rules[k], "to_time", MidnightStr)]]]

\* The rule loop of _update_attributes over one timeslot: every rule that
\* contains current_time overwrites the active_timeslot keys of the
\* attributes acc; float() of the rate is not guarded there, so a rate that
\* does not parse raises out of the method.
RECURSIVE AttrRules(_, _, _, _)
AttrRules(rules, timeslot, current_time, acc) ==
    IF rules = << >>
    THEN [attributes |-> acc, raised |-> FALSE]
    ELSE LET from_time == Get(Head(rules), "from_time", MidnightStr)
             to_time == Get(Head(rules), "to_time", MidnightStr)
             from_time_obj == parse_time(from_time)
             to_time_obj == parse_time(to_time)
             rate == Euros(Get(timeslot, "rate", "0"))
         IN  IF /\ from_time_obj # None
                /\ to_time_obj # None
                /\ is_time_between(current_time, Val(from_time_obj), Val(to_time_obj))
             THEN IF rate = None
                  THEN [attributes |-> acc, raised |-> TRUE]
                  ELSE AttrRules(Tail(rules), timeslot, current_time,
                           [active_timeslot |-> Get(timeslot, "name", "Unknown"),
                            active_timeslot_rate |-> Val(rate),
                            active_timeslot_from |-> from_time,
                            active_timeslot_to |-> to_time] @@ acc)
             ELSE AttrRules(Tail(rules), timeslot, current_time, acc)

\* The timeslot loop of _update_attributes
RECURSIVE AttrTimeslots(_, _, _)
AttrTimeslots(timeslots, current_time, acc) ==
    IF timeslots = << >>
    THEN [attributes |-> acc, raised |-> FALSE]
    ELSE LET r == AttrRules(Get(Head(timeslots), "activation_rules", << >>),
                            Head(timeslots), current_time, acc)
         IN  IF r.raised
             THEN r
             ELSE AttrTimeslots(Tail(timeslots), current_time, r.attributes)

\* f"{x:.2f} €" of a number x >= 0: two decimals, the nearest hundredth and
\* the even one of two equally near
format_2f(x) ==
    LET q == (x.n * 100) \div x.d
        r == (x.n * 100) % x.d
        hundredths == IF 2 * r > x.d \/ (2 * r = x.d /\ q % 2 = 1) THEN q + 1 ELSE q
        decimals == hundredths % 100
    IN  ToString(hundredths \div 100) \o "."
            \o (IF decimals < 10 THEN "0" ELSE "") \o ToString(decimals) \o " €"

\* product_attributes of _update_attributes for the product chosen, and the
\* exception that ended the method instead: the ValueError of a rate that is
\* not a number, the TypeError of an electricity_balance that is None
product_attributes(account_number, account_data, product, current_time) ==
    LET base == [code |-> Get(product, "code", "Unknown"),
                 name |-> Get(product, "name", "Unknown"),
                 description |-> Get(product, "description", "Unknown"),
                 type |-> Get(product, "type", "Unknown"),
                 valid_from |-> Get(product, "validFrom", UnknownStamp),
                 valid_to |-> Get(product, "validTo", UnknownStamp),
                 account_number |-> account_number,
                 active_tariff_type |-> Get(product, "type", "Unknown")]
                @@ meter_attributes(account_data)
        timeslots == Get(product, "timeslots", << >>)
        tou == IF Get(product, "type", "") = "TimeOfUse" /\ "timeslots" \in DOMAIN product
               THEN LET r == AttrTimeslots(timeslots, current_time, base)
                    IN  [attributes |->
                             r.attributes @@
                             [timeslots |-> [i \in DOMAIN timeslots |-> timeslot_data(timeslots[i])]],
                         raised |-> r.raised]
               ELSE [attributes |-> base, raised |-> FALSE]
        numbered == tou.attributes @@
                    [malo_number |-> Get(account_data, "malo_number", "Unknown"),
                     melo_number |-> Get(account_data, "melo_number", "Unknown")]
    IN  IF tou.raised
        THEN [attributes |-> numbered, raised |-> TRUE, error |-> "ValueError"]
        ELSE IF "electricity_balance" \notin DOMAIN account_data
        THEN [attributes |-> numbered, raised |-> FALSE, error |-> "none"]
        ELSE IF account_data.electricity_balance = None
        THEN [attributes |-> numbered, raised |-> TRUE, error |-> "TypeError"]
        ELSE [attributes |->
                  [electricity_balance |-> format_2f(account_data.electricity_balance)]
                  @@ numbered,
              raised |-> FALSE, error |-> "none"]

\* OctopusElectricityPriceSensor._update_attributes under snapshot d at
\* instant inst: the dictionary it would assign to _attributes, and whether
\* it raised instead.  The choice of the product repeats native_value's
\* filter and sort word for word.
update_attributes(account_number, d, inst) ==
    IF d = None \/ DOMAIN Val(d) = {} \/ account_number \notin DOMAIN Val(d)
    THEN [attributes |-> default_attributes(account_number), raised |-> FALSE,
          error |-> "none"]
    ELSE LET account_data == Val(d)[account_number]
             products == Get(account_data, "products", << >>)
             chosen == current_product(products, inst.iso)
         IN  IF products = << >> \/ chosen = None
             THEN [attributes |->
                       meter_attributes(account_data) @@ default_attributes(account_number),
                   raised |-> FALSE, error |-> "none"]
             ELSE product_attributes(account_number, account_data, Val(chosen), inst.time)

---------------------------------------------------------------------------
(* The life of the electricity price sensor of account A1: construction,
   coordinator refreshes, async_update, the passing of time, and reads *)

Named(name, timeslot) == ("name" :> name) @@ timeslot

\* Time-of-use products: night and day rates; two timeslots that both contain
\* the day; a night timeslot whose rate is not a number
NightAndDay ==
    TimeOfUse("4000", << Named("GO", Timeslot("1000", << NightRule >>)),
                         Named("STD", Timeslot("2000", << DayRule >>)) >>)

Overlapping ==
    TimeOfUse("4000", << Named("DAY", Timeslot("1000", << DayRule >>)),
                         Named("ALWAYS", Timeslot("2000", << EmptyDict >>)) >>)

BadNightRate ==
    TimeOfUse("4000", << Named("GO", Timeslot("abc", << NightRule >>)),
                         Named("STD", Timeslot("2000", << DayRule >>)) >>)

\* Accounts with an electricity_balance: 25.5, 0.125, and None
Balanced(balance) ==
    "A1" :> [products |-> << Simple("OLD", "2000") @@ From(T1) >>,
             electricity_balance |-> balance]

PriceSnapshots ==
    { None, Some("A2" :> [products |-> << >>]), Some("A1" :> [products |-> << >>]) }
    \cup { Some(Balanced(b)) : b \in { Rat(51, 2), Rat(1, 8), None } }
    \cup { Some("A1" :> [products |-> << p >>]) :
             p \in { Simple("OLD", "2000") @@ From(T1), Simple("FUTURE", "27.35") @@ From(T3),
                     NightAndDay, Overlapping, BadNightRate } }

PriceInstants ==
    { [iso |-> i, time |-> Time(h, 30, 0)] : i \in { T2, T3 }, h \in { 12, 23 } }

notPrice == <<now, ticks, sw, entry, switches, reading, window, success>>

\* What an operation that ends in _update_attributes leaves in _attributes,
\* and what it logs: when the method raises, nothing is assigned
Updated(old, r) == IF r.raised THEN old ELSE Some([attributes |-> r.attributes])

Raised(r) == r.error

\* __init__: _attributes = {} and _update_attributes(); when that raises no
\* entity comes to exist
PriceConstruct ==
    /\ price = None
    /\ LET r == update_attributes("A1", data, instant)
       IN  /\ price' = Updated(None, r)
           /\ last' = Event("__init__", None, Raised(r))
    /\ UNCHANGED <<data, instant, tasks, notPrice>>

\* The coordinator stores a new snapshot and calls the listeners:
\* _handle_coordinator_update is _update_attributes and then the host's
\* async_write_ha_state
PriceRefresh ==
    \E d \in PriceSnapshots :
        /\ data' = d
        /\ IF price = None
           THEN /\ price' = price
                /\ last' = Event("refresh", None, "none")
           ELSE LET r == update_attributes("A1", d, instant)
                IN  /\ price' = Updated(price, r)
                    /\ last' = Event("_handle_coordinator_update", None, Raised(r))
        /\ UNCHANGED <<instant, tasks, notPrice>>

\* async_update up to its await of super().async_update(), the host's part:
\* the coroutine is suspended there, and refreshes, reads and the clock go
\* on meanwhile
PriceAsyncUpdate ==
    /\ price # None
    /\ Len(tasks) < MaxUpdates
    /\ tasks' = Append(tasks, [pc |-> "super"])
    /\ last' = Event("async_update", None, "none")
    /\ UNCHANGED <<data, instant, price, notPrice>>

\* async_update resumed after the await: _update_attributes
PriceAsyncUpdateResumed ==
    \E i \in DOMAIN tasks :
        /\ tasks[i].pc = "super"
        /\ LET r == update_attributes("A1", data, instant)
           IN  /\ price' = Updated(price, r)
               /\ last' = Event("async_update_resumed", None, Raised(r))
        /\ tasks' = [tasks EXCEPT ![i].pc = "done"]
        /\ UNCHANGED <<data, instant, notPrice>>

\* Time passes
PriceClock ==
    /\ \E i \in PriceInstants :
           /\ i # instant
           /\ StrLeq(instant.iso, i.iso)
           /\ instant' = i
    /\ last' = Event("clock", None, "none")
    /\ UNCHANGED <<data, price, tasks, notPrice>>

PriceReadValue ==
    /\ price # None
    /\ last' = Event("native_value", native_value("A1", data, instant).ret, "none")
    /\ UNCHANGED <<data, instant, price, tasks, notPrice>>

\* extra_state_attributes
PriceReadAttributes ==
    /\ price # None
    /\ last' = Event("extra_state_attributes", Some(Val(price).attributes), "none")
    /\ UNCHANGED <<data, instant, price, tasks, notPrice>>

PriceInit ==
    /\ data \in PriceSnapshots
    /\ instant \in PriceInstants
    /\ price = None
    /\ last = Event("init", None, "none")
    /\ now = 0
    /\ ticks = 0
    /\ sw = None
    /\ tasks = << >>
    /\ entry = NoEntry
    /\ switches = << >>
    /\ reading = NoReading
    /\ window = NoWindow
    /\ success = TRUE

PriceNext ==
    \/ PriceConstruct
    \/ PriceRefresh
    \/ PriceAsyncUpdate
    \/ PriceAsyncUpdateResumed
    \/ PriceClock
    \/ PriceReadValue
    \/ PriceReadAttributes

PriceSpec == PriceInit /\ [][PriceNext]_vars

---------------------------------------------------------------------------
(* C17 *)

\* C17: no operation of the price sensor raises on data that does not parse:
\* constructing it, a refresh, async_update and reading native_value all
\* complete, whatever time strings and rates the snapshot holds.
C17_NothingRaises == last.log # "ValueError"

---------------------------------------------------------------------------
(* C19 *)

TariffKeys == { "code", "type", "active_timeslot", "active_timeslot_rate" }

Tariff(attributes) == [k \in TariffKeys \cap DOMAIN attributes |-> attributes[k]]

\* C19: the tariff attributes a read exposes are those of the latest snapshot
\* at the instant of the read, whatever happened before and however long ago
\* the last refresh was.
C19_AttributesOfTheInstant ==
    (/\ last.op = "extra_state_attributes"
     /\ ~ update_attributes("A1", data, instant).raised)
        => Tariff(Val(last.ret)) = Tariff(update_attributes("A1", data, instant).attributes)

---------------------------------------------------------------------------
(* Reads of the entities of account A1 under any snapshot and either value
   of last_update_success *)

\* OctopusElectricityPriceSensor.available
sensor_available(account_number, d, last_update_success) ==
    /\ last_update_success
    /\ d # None
    /\ account_number \in DOMAIN Val(d)

\* OctopusGasPriceSensor.available
gas_sensor_available(account_number, d, last_update_success) ==
    /\ last_update_success
    /\ d # None
    /\ account_number \in DOMAIN Val(d)

ReadSnapshots ==
    SwitchSnapshots
    \cup { Some(EmptyDict),
           Some([A1 |-> [devices |-> << Device("d1", "active") >>,
                         products |-> << Simple("OLD", "2000") @@ From(T1) >>,
                         gas_products |-> << Simple("OLD", "1500") @@ From(T1) >>]]) }

\* The switch of device d1, idle or waiting for a toggle made at time 0
ReadSwitches ==
    LET device == Device("d1", "suspended")
        s == OctopusSwitch(device, "A1", Some([A1 |-> [devices |-> << device >>]])).s
    IN  { s, SetPending(s, TRUE, 0) }

notRead == <<ticks, tasks, entry, switches, instant, reading, window, price>>

\* The coordinator finishes an update, with or without success, and the
\* switch handles it
ReadRefresh ==
    /\ \E d \in ReadSnapshots, ok \in BOOLEAN :
           /\ data' = d
           /\ success' = ok
           /\ LET r == handle_coordinator_update(sw, d, now, ok)
              IN  /\ sw' = r.s
                  /\ last' = Event("refresh", None, r.log)
    /\ UNCHANGED <<now, notRead>>

ReadSwitchAvailable ==
    /\ LET r == switch_available(sw, data, success)
       IN  last' = Event("switch.available", r.ret, r.log)
    /\ UNCHANGED <<data, success, sw, now, notRead>>

ReadSwitchIsOn ==
    /\ LET r == is_on(sw, data, now)
       IN  /\ sw' = r.s
           /\ last' = Event("switch.is_on", Some(r.ret), r.log)
    /\ UNCHANGED <<data, success, now, notRead>>

ReadSensorAvailable ==
    /\ last' = Event("sensor.available", Some(sensor_available("A1", data, success)), "none")
    /\ UNCHANGED <<data, success, sw, now, notRead>>

ReadSensorValue ==
    /\ last' = Event("sensor.native_value", native_value("A1", data, instant).ret, "none")
    /\ UNCHANGED <<data, success, sw, now, notRead>>

ReadGasAvailable ==
    /\ last' = Event("gas.available", Some(gas_sensor_available("A1", data, success)), "none")
    /\ UNCHANGED <<data, success, sw, now, notRead>>

ReadGasValue ==
    /\ last' = Event("gas.native_value", gas_native_value("A1", data, instant).ret, "none")
    /\ UNCHANGED <<data, success, sw, now, notRead>>

ReadInit ==
    /\ data \in ReadSnapshots
    /\ success \in BOOLEAN
    /\ sw \in ReadSwitches
    /\ now \in { 0, PendingTimeout + 1 }
    /\ instant = [iso |-> T2, time |-> Time(12, 30, 0)]
    /\ last = Event("init", None, "none")
    /\ ticks = 0
    /\ tasks = << >>
    /\ entry = NoEntry
    /\ switches = << >>
    /\ reading = NoReading
    /\ window = NoWindow
    /\ price = None

ReadNext ==
    \/ ReadRefresh
    \/ ReadSwitchAvailable
    \/ ReadSwitchIsOn
    \/ ReadSensorAvailable
    \/ ReadSensorValue
    \/ ReadGasAvailable
    \/ ReadGasValue

ReadSpec == ReadInit /\ [][ReadNext]_vars

---------------------------------------------------------------------------
(* C18 *)

\* The snapshot is none or lacks account A1
NoAccountData == data = None \/ "A1" \notin DOMAIN Val(data)

\* C18: under a snapshot that is none, lacks the account or, for the switch,
\* lacks the device, no read raises and each returns its sentinel, whatever
\* last_update_success is: native_value none, available false, and is_on
\* false unless a toggle is pending.
C18_ReadsReturnSentinels ==
    /\ last.op \notin { "init", "refresh" } => ~ IsError(last.log)
    /\ (NoAccountData /\ last.op \in { "sensor.native_value", "gas.native_value" })
           => last.ret = None
    /\ (NoAccountData /\ last.op \in { "sensor.available", "gas.available" })
           => last.ret = Some(FALSE)
    /\ (get_device(sw, data) = None /\ last.op = "switch.available")
           => last.ret = Some(FALSE)
    /\ (get_device(sw, data) = None /\ last.op = "switch.is_on")
           => last.ret = (IF sw.is_switching THEN sw.pending_state ELSE Some(FALSE))

---------------------------------------------------------------------------
(* C20 *)

\* C20: when a second toggle was issued while the first toggle's API call was
\* in flight, and the first call then fails (returns false or raises) while
\* the switch is Pending for the second toggle, the switch stays Pending for
\* the second toggle and is_on keeps reporting its target.
C20_EarlierFailureKeepsPending ==
    [][ ( /\ Len(tasks) = 2
          /\ tasks[1].pc = "api"
          /\ tasks'[1].result \in { "false", "raise" }
          /\ tasks[2].result \notin { "false", "raise" }
          /\ Optimistic(sw, tasks[2])
          /\ now <= Deadline(tasks[2]) )
        => /\ Optimistic(sw', tasks[2])
           /\ is_on(sw', data', now').ret = tasks[2].target ]_vars

---------------------------------------------------------------------------
(* The switch with a clock that keeps running, and a host that keeps
   reading is_on *)

\* The instants at which something is due: the end of the asyncio.sleep of
\* a toggle, whatever the pending fields hold, and the instant SleepSeconds
\* past the deadline
Due ==
    { Val(tasks[i].wake) : i \in { k \in DOMAIN tasks : tasks[k].pc = "sleep" } }
    \cup ( IF sw.pending_until # None
           THEN { Val(sw.pending_until) + SleepSeconds }
           ELSE { } )

\* Time passes, up to an instant at which something is due and however
\* often it has done so before
Elapse ==
    /\ \E t \in Due :
           /\ t > now
           /\ now' = t
    /\ last' = Event("tick", None, "none")
    /\ UNCHANGED <<data, ticks, sw, tasks, notSwitch>>

\* The toggles, of which MaxLiveToggles are issued here
LiveTurnOn == Len(tasks) < MaxLiveToggles /\ async_turn_on

LiveTurnOff == Len(tasks) < MaxLiveToggles /\ async_turn_off

LiveNext ==
    \/ LiveTurnOn
    \/ LiveTurnOff
    \/ ApiReturns
    \/ SleepElapsed
    \/ RefreshReturns
    \/ CoordinatorRefresh
    \/ ReadIsOn
    \/ Elapse

LiveSpec ==
    /\ Init
    /\ [][LiveNext]_vars
    /\ WF_vars(Elapse)
    /\ WF_vars(ReadIsOn)

---------------------------------------------------------------------------
(* C21 *)

---------------------------------------------------------------------------
(* C22 *)

\* C22: a product is in force on [validFrom, validTo) only, so a price sensor
\* never uses a product whose validTo equals the instant of the read.
C22_EndsBeforeValidTo ==
    (reading.sensor # "none" /\ reading.used # None)
        => Get(Val(reading.used), "validTo", << >>) # instant.iso

---------------------------------------------------------------------------
(* C23 *)

\* C23: while the switch is Idle, is_on is what the latest snapshot reports
\* for the device: not isSuspended, a missing status or isSuspended counting
\* as suspended, and false when the snapshot is none or lacks the device;
\* never a state remembered from an earlier snapshot or an abandoned toggle.
C23_IdleReportsSnapshot ==
    Idle(sw) =>
        /\ is_on(sw, data, now).ret = ReportedOn(data)
        /\ last.op = "is_on" => last.ret = Some(ReportedOn(data))

\* A toggle to on was abandoned when its call returned false, the switch
\* remembers on from an earlier snapshot, the latest snapshot lacks the
\* device, and is_on was read as false
C23_Witness ==
    /\ Idle(sw)
    /\ Len(tasks) = 1 /\ Latest.target /\ Latest.result = "false"
    /\ sw.current_state
    /\ ~ DevicePresent(data)
    /\ last = Event("is_on", Some(FALSE), "none")

---------------------------------------------------------------------------
(* C24 *)

\* The product the sensor of A1 uses under the current snapshot and instant
ProductInUse == native_value("A1", data, instant).used

\* A refresh has just been handled by the sensor, the product in use is a
\* TimeOfUse product and some rule of it contains the time of day
RefreshedTimeOfUse ==
    /\ price # None
    /\ last = Event("_handle_coordinator_update", None, "none")
    /\ ProductInUse # None
    /\ Get(Val(ProductInUse), "type", "") = "TimeOfUse"
    /\ SlotsContaining(Val(ProductInUse), instant.time) # {}

\* C24: right after a refresh, when some rule of the TimeOfUse product in use
\* contains the time of day, the attribute active_timeslot_rate is the
\* sensor's native_value and active_timeslot is the name of the timeslot that
\* native_value took its rate from, the first one that applies.
C24_AttributesAgreeWithValue ==
    RefreshedTimeOfUse =>
        LET attributes == Val(price).attributes
            p == Val(ProductInUse)
            first == SetMin(SlotsPriced(p, instant.time))
        IN  /\ "active_timeslot_rate" \in DOMAIN attributes
            /\ Some(attributes.active_timeslot_rate) = native_value("A1", data, instant).ret
            /\ attributes.active_timeslot = Get(p.timeslots[first], "name", "Unknown")

---------------------------------------------------------------------------
(* C25 *)

\* C25: a toggle issued while the switch is Pending makes the switch Pending
\* for the new target with the deadline at the instant of the new toggle plus
\* five minutes; as long as the switch stays so, a read of is_on made after
\* the earlier toggle's deadline and not after the new one returns the new
\* target and times nothing out.
C25_LaterToggleReplaces ==
    [][ /\ (Len(tasks') = Len(tasks) + 1 /\ sw.is_switching)
            => /\ sw'.is_switching
               /\ sw'.pending_state = Some(tasks'[Len(tasks')].target)
               /\ sw'.pending_until = Some(now + PendingTimeout)
        /\ ( /\ Len(tasks') = 2
             /\ Optimistic(sw', tasks'[2])
             /\ now' > Deadline(tasks'[1])
             /\ now' <= Deadline(tasks'[2]) )
            => /\ is_on(sw', data', now').ret = tasks'[2].target
               /\ is_on(sw', data', now').log = "none"
               /\ is_on(sw', data', now').s = sw' ]_vars

\* A toggle to on at 0 and a toggle to off five minutes later; at ten
\* minutes, past the first deadline, is_on was read as off and the switch is
\* still Pending for the second toggle
C25_Witness ==
    /\ Len(tasks) = 2
    /\ tasks[1].target /\ ~ tasks[2].target
    /\ tasks[1].at = 0 /\ tasks[2].at = PendingTimeout
    /\ now = 2 * PendingTimeout
    /\ Optimistic(sw, tasks[2])
    /\ last = Event("is_on", Some(FALSE), "none")

---------------------------------------------------------------------------
(* C26 *)

\* C26: once the API call of the toggle the switch is Pending for has
\* returned true, the pending fields stay as they are and is_on keeps
\* reporting the target until a refresh confirms the target or the deadline
\* passes; a further toggle opens a Pending of its own.
C26_TrueReturnKeepsPending ==
    [][ ( /\ Len(tasks) >= 1
          /\ Len(tasks') = Len(tasks)
          /\ tasks'[Len(tasks)].result = "true"
          /\ Optimistic(sw, Latest)
          /\ ~ (last'.op = "refresh" /\ last'.log = "confirmed")
          /\ last'.log # "timeout" )
        => /\ PendingFields(sw') = PendingFields(sw)
           /\ now' <= Deadline(Latest)
                  => is_on(sw', data', now').ret = Latest.target ]_vars

---------------------------------------------------------------------------
(* C27 *)

\* C27: a coordinator refresh whose snapshot is none or lacks the switch's
\* device leaves is_switching, pending_state and the deadline as they were,
\* so a Pending switch is neither confirmed nor aborted by it.
C27_RefreshWithoutDeviceKeepsPending ==
    [][ (last'.op = "refresh" /\ ~ DevicePresent(data'))
        => /\ PendingFields(sw') = PendingFields(sw)
           /\ last'.log # "confirmed" ]_vars

\* A Pending switch after a refresh that delivered no snapshot
C27_Witness ==
    /\ last.op = "refresh"
    /\ data = None
    /\ Len(tasks) = 1
    /\ Optimistic(sw, Latest)

---------------------------------------------------------------------------
(* C28 *)

\* The list the snapshot holds for account A1 under the key, [] without it
ListUnder(key) ==
    IF data = None \/ "A1" \notin DOMAIN Val(data)
    THEN << >>
    ELSE Get(Val(data)["A1"], key, << >>)

\* C28: when the snapshot holds the same list under products and under
\* gas_products, the value read from either price sensor is the value the
\* other sensor type computes at the same instant.
C28_GasAndElectricityAgree ==
    (reading.sensor # "none" /\ ListUnder("products") = ListUnder("gas_products"))
        => /\ reading.sensor = "electricity"
                  => reading.ret = gas_native_value("A1", data, instant).ret
           /\ reading.sensor = "gas"
                  => reading.ret = native_value("A1", data, instant).ret

\* The gas sensor was read on a list shared by both keys and priced a product
\* whose validTo is the instant, as the electricity sensor does
C28_Witness ==
    /\ reading.sensor = "gas"
    /\ ListUnder("products") = ListUnder("gas_products")
    /\ reading.used # None
    /\ Get(Val(reading.used), "validTo", << >>) = instant.iso
    /\ reading.ret # None
    /\ reading.ret = native_value("A1", data, instant).ret

---------------------------------------------------------------------------
(* C29 *)

\* The positions of the products in force whose validFrom is the greatest
Greatest ==
    { i \in InForce :
        \A j \in InForce : StrLeq(ProductsRead[j].validFrom, ProductsRead[i].validFrom) }

\* C29: when several products in force share the greatest validFrom, the
\* product a price sensor uses is the one of them that comes first in the
\* snapshot's product list.
C29_FirstAmongTies ==
    (reading.sensor # "none" /\ Greatest # {})
        => /\ reading.used # None
           /\ \E i \in Greatest :
                  /\ \A j \in Greatest : i <= j
                  /\ Val(reading.used) = ProductsRead[i]

\* A sensor was read on a list with two different products in force that
\* share the greatest validFrom, and used the earlier of the two
C29_Witness ==
    /\ reading.sensor # "none"
    /\ reading.used # None
    /\ \E i, k \in Greatest :
           /\ i < k
           /\ ProductsRead[i] # ProductsRead[k]
           /\ \A j \in Greatest : i <= j
           /\ Val(reading.used) = ProductsRead[i]

---------------------------------------------------------------------------
(* C30 *)

Zero == [n |-> 0, d |-> 1]

\* The positions of the timeslots of p that have a rule containing t and
\* whose rate is absent or parses
SlotsNotPassedOver(p, t) ==
    { i \in SlotsContaining(p, t) :
        \/ "rate" \notin DOMAIN p.timeslots[i]
        \/ p.timeslots[i].rate \in DOMAIN FloatOf }

\* No timeslot of p gives a rate at t, so the value comes from grossRate
GrossRateDecides(p, t) ==
    \/ Get(p, "type", "") # "TimeOfUse"
    \/ "timeslots" \notin DOMAIN p
    \/ SlotsNotPassedOver(p, t) = {}

\* C30: a product in use without grossRate, no timeslot of which gives the
\* rate, is valued 0.0 and not none; and when the first matching timeslot
\* that is not passed over has no rate, the value is 0.0 whatever the
\* product's grossRate.
C30_AbsentRateIsZero ==
    (reading.sensor # "none" /\ reading.used # None)
        => LET p == Val(reading.used)
               t == instant.time
           IN  /\ ("grossRate" \notin DOMAIN p /\ GrossRateDecides(p, t))
                      => reading.ret = Some(Zero)
               /\ ( /\ ~ GrossRateDecides(p, t)
                    /\ "rate" \notin DOMAIN p.timeslots[SetMin(SlotsNotPassedOver(p, t))] )
                      => reading.ret = Some(Zero)

\* A time-of-use product with grossRate 4000 whose only matching timeslot
\* has no rate was valued 0.0
C30_Witness ==
    /\ UsedTimeOfUse
    /\ LET p == Val(reading.used)
       IN  /\ Get(p, "grossRate", "") = "4000"
           /\ SlotsContaining(p, instant.time) = { 1 }
           /\ "rate" \notin DOMAIN p.timeslots[1]
    /\ reading.ret = Some(Zero)

\* A simple product without grossRate was valued 0.0
C30_SimpleWitness ==
    /\ reading.sensor # "none"
    /\ reading.used = Some(NoGross)
    /\ reading.ret = Some(Zero)

====
